---- MODULE Spec2Model ----
(***************************************************************************)
(* Sparse matrix library (namespace algebra): Matrix<T,S>, SquareMatrix,   *)
(* Proxy, and the SpMV / SpGEMM kernels.                                   *)
(*                                                                         *)
(* A matrix object is a record holding the fields of the C++ object.       *)
(* std::vector is a sequence (C++ index i is TLA+ index i+1), std::map is  *)
(* a function whose domain is the set of stored keys <<row, col>>.         *)
(* T is instantiated with the integers.                                    *)
(***************************************************************************)
EXTENDS Integers, Sequences, FiniteSets, TLC

VARIABLES A, dense, nwrites, B, res

vars == <<A, dense, nwrites, B, res>>

(***************************************************************************)
(* Bounds of the model.                                                    *)
(***************************************************************************)
MaxRows == 3
MaxCols == 3
MaxNnz == 3
MaxVal == 1
MaxWrites == 3

Vals == (-MaxVal)..MaxVal
NzVals == Vals \ {0}
Orders == {"RowMajor", "ColumnMajor"}
Kinds == {"Matrix", "SquareMatrix"}
MinOf(a, b) == IF a < b THEN a ELSE b
MaxSide == MinOf(MaxRows, MaxCols)

(***************************************************************************)
(* std::vector helpers (0-based index of the source).  An index past the   *)
(* end has no value: both helpers are undefined there, and the calls that  *)
(* can reach such an index are guarded where they are made.                *)
(***************************************************************************)
Rd(s, i) == s[i + 1]
Wr(s, i, x) == IF i + 1 \in DOMAIN s THEN [s EXCEPT ![i + 1] = x] ELSE Rd(s, i)
Fill(n, x) == [i \in 1..n |-> x]

(***************************************************************************)
(* storage.hpp: Index comparators and std::map operations.                 *)
(***************************************************************************)
\* RowMajor::operator() / ColMajor::operator(), chosen by ComparatorSelector<S>
Less(order, a, b) ==
    IF order = "RowMajor"
    THEN (a[1] < b[1]) \/ (a[1] = b[1] /\ a[2] < b[2])
    ELSE (a[2] < b[2]) \/ (a[2] = b[2] /\ a[1] < b[1])

\* in-order iteration of std::map<Index, T, Comparator>
RECURSIVE SortedKeys(_, _)
SortedKeys(order, K) ==
    IF K = {} THEN <<>>
    ELSE LET mn == CHOOSE k \in K : \A o \in K \ {k} : Less(order, k, o)
         IN <<mn>> \o SortedKeys(order, K \ {mn})

EmptyMap == [k \in {} |-> 0]
MapPut(mp, key, v) == (key :> v) @@ mp
MapErase(mp, key) == [k \in (DOMAIN mp) \ {key} |-> mp[k]]

\* major / minor coordinate of a key under storage order S
Major(order, key) == IF order = "ColumnMajor" THEN key[2] ELSE key[1]
Minor(order, key) == IF order = "ColumnMajor" THEN key[1] ELSE key[2]
\* the key of the entry with the given major and minor coordinate
KeyOf(order, major, minor) ==
    IF order = "ColumnMajor" THEN <<minor, major>> ELSE <<major, minor>>
\* number of major slices: cols for ColumnMajor, rows for RowMajor
MajorCount(m) == IF m.order = "ColumnMajor" THEN m.cols ELSE m.rows

(***************************************************************************)
(* Construction: Matrix(rows, cols) and SquareMatrix(size).                *)
(***************************************************************************)
NewMatrix(kind, order, rows, cols) ==
    [kind |-> kind, order |-> order, rows |-> rows, cols |-> cols,
     compressed |-> FALSE, modified |-> FALSE,
     uncompressed_format |-> EmptyMap,
     inner |-> <<>>, outer |-> <<>>, values |-> <<>>,
     mod_values |-> <<>>, mod_bind |-> <<>>]

(***************************************************************************)
(* Matrix<T,S>::uncompress (impl/matrix.tpp)                               *)
(***************************************************************************)
\* seeded fault: the key is built as {slice, outer[j]} in both storage orders
RECURSIVE UncompressSliceRowOnly(_, _, _, _, _)
UncompressSliceRowOnly(m, slice, j, end, mp) ==
    IF j < end
    THEN UncompressSliceRowOnly(m, slice, j + 1, end,
             MapPut(mp, <<slice, Rd(m.outer, j)>>, Rd(m.values, j)))
    ELSE mp

\* inner loop: for (j = start; j < end; j++) uncompressed_format[{..}] = values[j]
RECURSIVE UncompressSlice(_, _, _, _, _)
UncompressSlice(m, slice, j, end, mp) ==
    IF j < end
    THEN UncompressSlice(m, slice, j + 1, end,
             MapPut(mp, KeyOf(m.order, slice, Rd(m.outer, j)), Rd(m.values, j)))
    ELSE mp

\* outer loop over the major slices
RECURSIVE UncompressSlices(_, _, _)
UncompressSlices(m, slice, mp) ==
    IF slice < MajorCount(m)
    THEN UncompressSlices(m, slice + 1,
             UncompressSlice(m, slice, Rd(m.inner, slice), Rd(m.inner, slice + 1), mp))
    ELSE mp

Matrix_uncompress(m) ==
    IF ~m.compressed THEN m
    ELSE [m EXCEPT !.uncompressed_format = UncompressSlices(m, 0, EmptyMap),
                   !.inner = <<>>, !.outer = <<>>, !.values = <<>>,
                   !.compressed = FALSE]

(***************************************************************************)
(* Matrix<T,S>::compress (impl/matrix.tpp)                                 *)
(***************************************************************************)
\* while (target > index) { index++; inner[index] = outer.size(); }
RECURSIVE AdvanceInner(_, _, _, _)
AdvanceInner(inner, index, target, size) ==
    IF target > index
    THEN AdvanceInner(Wr(inner, index + 1, size), index + 1, target, size)
    ELSE inner

\* for (const auto &it : uncompressed_format) { ... }: st is the loop state
\* [index, inner, outer, values]
RECURSIVE CompressWalk(_, _, _, _)
CompressWalk(m, keys, i, st) ==
    IF i > Len(keys) THEN st
    ELSE LET key == keys[i]
             mj == Major(m.order, key)
             inner2 == AdvanceInner(st.inner, st.index, mj, Len(st.outer))
             index2 == IF mj > st.index THEN mj ELSE st.index
         IN CompressWalk(m, keys, i + 1,
                [index |-> index2, inner |-> inner2,
                 outer |-> Append(st.outer, Minor(m.order, key)),
                 values |-> Append(st.values, m.uncompressed_format[key])])

\* compress without the early return on a compressed matrix
Matrix_compressAlways(m) ==
    LET keys == SortedKeys(m.order, DOMAIN m.uncompressed_format)
        st == CompressWalk(m, keys, 1,
                 [index |-> 0, inner |-> Fill(MajorCount(m) + 1, 0),
                  outer |-> <<>>, values |-> <<>>])
        innerF == AdvanceInner(st.inner, st.index, MajorCount(m), Len(st.outer))
    IN [m EXCEPT !.inner = innerF, !.outer = st.outer, !.values = st.values,
                 !.uncompressed_format = EmptyMap, !.compressed = TRUE]

Matrix_compress(m) ==
    IF m.compressed THEN m
    ELSE LET keys == SortedKeys(m.order, DOMAIN m.uncompressed_format)
             st == CompressWalk(m, keys, 1,
                      [index |-> 0, inner |-> Fill(MajorCount(m) + 1, 0),
                       outer |-> <<>>, values |-> <<>>])
             innerF == AdvanceInner(st.inner, st.index, MajorCount(m), Len(st.outer))
         IN [m EXCEPT !.inner = innerF, !.outer = st.outer, !.values = st.values,
                      !.uncompressed_format = EmptyMap, !.compressed = TRUE]

(***************************************************************************)
(* Matrix<T,S>::operator() const and Matrix<T,S>::get_nnz                  *)
(***************************************************************************)
\* seeded fault: the scan of a slice stops one entry before its end
RECURSIVE FindInSliceShort(_, _, _, _, _)
FindInSliceShort(idx, vals, j, end, want) ==
    IF j + 1 < end
    THEN IF Rd(idx, j) = want THEN Rd(vals, j)
         ELSE FindInSliceShort(idx, vals, j + 1, end, want)
    ELSE 0

\* for (j = start; j < end; j++) if (idx[j] == want) return vals[j]; ... return T(0)
RECURSIVE FindInSlice(_, _, _, _, _)
FindInSlice(idx, vals, j, end, want) ==
    IF j < end
    THEN IF Rd(idx, j) = want THEN Rd(vals, j)
         ELSE FindInSlice(idx, vals, j + 1, end, want)
    ELSE 0

Matrix_get(m, row, col) ==
    IF ~m.compressed
    THEN IF <<row, col>> \in DOMAIN m.uncompressed_format
         THEN m.uncompressed_format[<<row, col>>] ELSE 0
    ELSE LET mj == Major(m.order, <<row, col>>)
             mn == Minor(m.order, <<row, col>>)
         IN FindInSlice(m.outer, m.values, Rd(m.inner, mj), Rd(m.inner, mj + 1), mn)

Matrix_get_nnz(m) ==
    IF m.compressed THEN Len(m.values)
    ELSE Cardinality(DOMAIN m.uncompressed_format)

(***************************************************************************)
(* SquareMatrix<T,S>::operator() const, get_nnz, get_mod_size              *)
(* (square_matrix.tpp).  Get and GetNnz are the virtual calls.             *)
(***************************************************************************)
\* end of slice i in the MSR/MSC arrays: bind[i + 1], values.size() for the last
ModEnd(m, i, n) ==
    IF i # n - 1 THEN Rd(m.mod_bind, i + 1) ELSE Len(m.mod_values)

SquareMatrix_get(m, row, col) ==
    IF m.modified
    THEN IF row = col THEN Rd(m.mod_values, row)
         ELSE LET mj == Major(m.order, <<row, col>>)
                  mn == Minor(m.order, <<row, col>>)
              IN FindInSlice(m.mod_bind, m.mod_values, Rd(m.mod_bind, mj),
                             ModEnd(m, mj, MajorCount(m)), mn)
    ELSE Matrix_get(m, row, col)

Get(m, row, col) ==
    IF m.kind = "SquareMatrix" THEN SquareMatrix_get(m, row, col)
    ELSE Matrix_get(m, row, col)

SquareMatrix_get_nnz(m) ==
    IF m.modified
    THEN Len(m.mod_values)
         - Cardinality({i \in 0..(m.rows - 1) : Rd(m.mod_values, i) = 0})
    ELSE Matrix_get_nnz(m)

GetNnz(m) ==
    IF m.kind = "SquareMatrix" THEN SquareMatrix_get_nnz(m) ELSE Matrix_get_nnz(m)

get_mod_size(m) ==
    Cardinality({i \in 0..(m.rows - 1) : SquareMatrix_get(m, i, i) = 0}) + GetNnz(m)

(***************************************************************************)
(* SquareMatrix<T,S>::compress_mod (square_matrix.tpp)                     *)
(***************************************************************************)
\* from CSR/CSC, entries j in [start, end) of slice: st = [off, values, bind]
RECURSIVE ModFromCompressedSlice(_, _, _, _, _)
ModFromCompressedSlice(m, slice, j, end, st) ==
    IF j < end
    THEN LET mn == Rd(m.outer, j)
         IN ModFromCompressedSlice(m, slice, j + 1, end,
              IF mn = slice
              THEN [st EXCEPT !.values = Wr(st.values, mn, Rd(m.values, j))]
              ELSE [off |-> st.off + 1,
                    values |-> Wr(st.values, m.rows + st.off, Rd(m.values, j)),
                    bind |-> Wr(st.bind, m.rows + st.off, mn)])
    ELSE st

RECURSIVE ModFromCompressed(_, _, _)
ModFromCompressed(m, slice, st) ==
    IF slice < MajorCount(m)
    THEN LET st1 == [st EXCEPT !.bind = Wr(st.bind, slice, st.off + m.rows)]
         IN ModFromCompressed(m, slice + 1,
                ModFromCompressedSlice(m, slice, Rd(m.inner, slice),
                                       Rd(m.inner, slice + 1), st1))
    ELSE st

\* from COO: one pass over the map in key order, counting per slice in bind
RECURSIVE ModFromMap(_, _, _, _)
ModFromMap(m, keys, i, st) ==
    IF i > Len(keys) THEN st
    ELSE LET key == keys[i]
             mj == Major(m.order, key)
             mn == Minor(m.order, key)
             v == m.uncompressed_format[key]
         IN ModFromMap(m, keys, i + 1,
              IF key[1] = key[2]
              THEN [st EXCEPT !.values = Wr(st.values, key[1], v)]
              ELSE LET b1 == Wr(st.bind, m.rows + st.off, mn)
                       b2 == IF mj < MajorCount(m) - 1
                             THEN Wr(b1, mj + 1, Rd(b1, mj + 1) + 1) ELSE b1
                   IN [off |-> st.off + 1,
                       values |-> Wr(st.values, m.rows + st.off, v),
                       bind |-> b2])

\* the prefix sum of bind without the shift past the diagonal slots
RECURSIVE ModPrefixUnshifted(_, _, _)
ModPrefixUnshifted(bind, i, rows) ==
    IF i < rows
    THEN ModPrefixUnshifted(Wr(bind, i, Rd(bind, i) + Rd(bind, i - 1)), i + 1, rows)
    ELSE bind

\* for (i = 1; i < rows; ++i) { bind[i] += bind[i-1]; bind[i-1] += rows; }
RECURSIVE ModPrefix(_, _, _)
ModPrefix(bind, i, rows) ==
    IF i < rows
    THEN LET b1 == Wr(bind, i, Rd(bind, i) + Rd(bind, i - 1))
         IN ModPrefix(Wr(b1, i - 1, Rd(b1, i - 1) + rows), i + 1, rows)
    ELSE bind

compress_mod(m) ==
    IF m.modified THEN m
    ELSE LET size == get_mod_size(m)
             st0 == [off |-> 0, values |-> Fill(size, 0), bind |-> Fill(size, 0)]
         IN IF m.compressed
            THEN LET st == ModFromCompressed(m, 0, st0)
                 IN [m EXCEPT !.mod_values = st.values, !.mod_bind = st.bind,
                              !.inner = <<>>, !.outer = <<>>, !.values = <<>>,
                              !.compressed = FALSE, !.modified = TRUE]
            ELSE LET st == ModFromMap(m, SortedKeys(m.order, DOMAIN m.uncompressed_format),
                                      1, st0)
                     b1 == ModPrefix(st.bind, 1, m.rows)
                     b2 == Wr(b1, m.rows - 1, Rd(b1, m.rows - 1) + m.rows)
                 IN [m EXCEPT !.mod_values = st.values, !.mod_bind = b2,
                              !.uncompressed_format = EmptyMap,
                              !.compressed = FALSE, !.modified = TRUE]

\* the merge that never places the diagonal entry inside the slice
RECURSIVE MergeSliceDiagonalLast(_, _, _, _, _)
MergeSliceDiagonalLast(m, i, j, end, st) ==
    IF j < end
    THEN MergeSliceDiagonalLast(m, i, j + 1, end,
             [index |-> st.index, flag |-> st.flag,
              outer |-> Append(st.outer, Rd(m.mod_bind, j)),
              values |-> Append(st.values, Rd(m.mod_values, j))])
    ELSE st

(***************************************************************************)
(* SquareMatrix<T,S>::compress (square_matrix.tpp): MSR/MSC -> CSR/CSC     *)
(* merges the diagonal slot of each slice at its sorted position.          *)
(***************************************************************************)
\* for (j = start; j < end; ++j): st = [index, flag, outer, values]
RECURSIVE MergeSlice(_, _, _, _, _)
MergeSlice(m, i, j, end, st) ==
    IF j < end
    THEN LET mn == Rd(m.mod_bind, j)
             diagNow == ~st.flag /\ Rd(m.mod_values, i) # 0 /\ mn > i
             o1 == IF diagNow THEN Append(st.outer, i) ELSE st.outer
             v1 == IF diagNow THEN Append(st.values, Rd(m.mod_values, i)) ELSE st.values
         IN MergeSlice(m, i, j + 1, end,
                [index |-> IF diagNow THEN st.index + 1 ELSE st.index,
                 flag |-> st.flag \/ diagNow,
                 outer |-> Append(o1, mn),
                 values |-> Append(v1, Rd(m.mod_values, j))])
    ELSE st

\* for (i = 0; i < N; ++i): st = [index, inner, outer, values].  The source reads
\* bind[i + 1] before it replaces it by values.size() for the last slice; that
\* value is never used, so ModEnd stands for both statements.
RECURSIVE MergeSlices(_, _, _)
MergeSlices(m, i, st) ==
    IF i < MajorCount(m)
    THEN LET start == Rd(m.mod_bind, i)
             end == ModEnd(m, i, MajorCount(m))
             s1 == MergeSlice(m, i, start, end,
                      [index |-> st.index, flag |-> FALSE,
                       outer |-> st.outer, values |-> st.values])
             late == ~s1.flag /\ Rd(m.mod_values, i) # 0
             o2 == IF late THEN Append(s1.outer, i) ELSE s1.outer
             v2 == IF late THEN Append(s1.values, Rd(m.mod_values, i)) ELSE s1.values
             index2 == (IF late THEN s1.index + 1 ELSE s1.index) + (end - start)
         IN MergeSlices(m, i + 1,
                [index |-> index2, inner |-> Wr(st.inner, i + 1, index2),
                 outer |-> o2, values |-> v2])
    ELSE st

SquareMatrix_compress(m) ==
    IF m.compressed THEN m
    ELSE IF m.modified
         THEN LET st == MergeSlices(m, 0,
                          [index |-> 0, inner |-> Fill(MajorCount(m) + 1, 0),
                           outer |-> <<>>, values |-> <<>>])
              IN [m EXCEPT !.inner = st.inner, !.outer = st.outer, !.values = st.values,
                           !.mod_values = <<>>, !.mod_bind = <<>>,
                           !.modified = FALSE, !.compressed = TRUE]
         ELSE Matrix_compress(m)

\* virtual compress()
Compress(m) ==
    IF m.kind = "SquareMatrix" THEN SquareMatrix_compress(m) ELSE Matrix_compress(m)

(***************************************************************************)
(* SquareMatrix<T,S>::uncompress (square_matrix.tpp)                       *)
(***************************************************************************)
RECURSIVE ModUncompressSlice(_, _, _, _, _)
ModUncompressSlice(m, slice, j, end, mp) ==
    IF j < end
    THEN ModUncompressSlice(m, slice, j + 1, end,
             MapPut(mp, KeyOf(m.order, slice, Rd(m.mod_bind, j)), Rd(m.mod_values, j)))
    ELSE mp

RECURSIVE ModUncompressSlices(_, _, _)
ModUncompressSlices(m, slice, mp) ==
    IF slice < MajorCount(m)
    THEN LET mp1 == IF Rd(m.mod_values, slice) # 0
                    THEN MapPut(mp, <<slice, slice>>, Rd(m.mod_values, slice))
                    ELSE mp
         IN ModUncompressSlices(m, slice + 1,
                ModUncompressSlice(m, slice, Rd(m.mod_bind, slice),
                                   ModEnd(m, slice, MajorCount(m)), mp1))
    ELSE mp

\* the modified branch resets only the flag: the MSR/MSC arrays are not cleared
SquareMatrix_uncompress(m) ==
    IF m.modified
    THEN [m EXCEPT !.uncompressed_format = ModUncompressSlices(m, 0, EmptyMap),
                   !.modified = FALSE]
    ELSE Matrix_uncompress(m)

\* virtual uncompress()
Uncompress(m) ==
    IF m.kind = "SquareMatrix" THEN SquareMatrix_uncompress(m) ELSE Matrix_uncompress(m)

(***************************************************************************)
(* set (impl/matrix.tpp, square_matrix.tpp).  The result is the object as  *)
(* the call leaves it, also when it throws std::out_of_range.              *)
(***************************************************************************)
InRange(m, row, col) == row < m.rows /\ col < m.cols

\* Matrix<T,S>::set after its range check
Matrix_set(m, row, col, value) ==
    IF ~InRange(m, row, col) THEN m
    ELSE LET u == IF m.compressed THEN Uncompress(m) ELSE m
         IN IF value # 0
            THEN [u EXCEPT !.uncompressed_format = MapPut(@, <<row, col>>, value)]
            ELSE [u EXCEPT !.uncompressed_format = MapErase(@, <<row, col>>)]

SquareMatrix_set(m, row, col, value) ==
    Matrix_set(IF m.modified THEN SquareMatrix_uncompress(m) ELSE m, row, col, value)

\* virtual set()
Set(m, row, col, value) ==
    IF m.kind = "SquareMatrix" THEN SquareMatrix_set(m, row, col, value)
    ELSE Matrix_set(m, row, col, value)

(***************************************************************************)
(* operator()(row, col) non-const and Proxy (proxy.hpp)                    *)
(***************************************************************************)
\* Matrix<T,S>::operator(): uncompress if compressed, hand out the proxy
Matrix_at(m) == IF m.compressed THEN Uncompress(m) ELSE m

\* operator() that uncompresses only from the modified format
SquareMatrix_atModifiedOnly(m) == IF m.modified THEN SquareMatrix_uncompress(m) ELSE m

\* SquareMatrix<T,S>::operator(): uncompress if modified or compressed
SquareMatrix_at(m) == IF m.modified \/ m.compressed THEN SquareMatrix_uncompress(m) ELSE m

\* virtual operator()(row, col)
At(m) == IF m.kind = "SquareMatrix" THEN SquareMatrix_at(m) ELSE Matrix_at(m)

\* Proxy::operator T()
ProxyRead(mp, row, col) ==
    IF <<row, col>> \in DOMAIN mp THEN mp[<<row, col>>] ELSE 0

\* Proxy::operator=
ProxyAssign(mp, row, col, val) ==
    IF val = 0 THEN MapErase(mp, <<row, col>>) ELSE MapPut(mp, <<row, col>>, val)

\* std::map::operator[]: inserts T() when the key is absent
MapIndex(mp, key) == IF key \in DOMAIN mp THEN mp ELSE MapPut(mp, key, 0)

\* operator+= that stores the sum also when it is 0
ProxyAddKeep(mp, row, col, val) ==
    LET mp1 == MapIndex(mp, <<row, col>>)
    IN MapPut(mp1, <<row, col>>, mp1[<<row, col>>] + val)

\* Proxy::operator+=
ProxyAdd(mp, row, col, val) ==
    LET mp1 == MapIndex(mp, <<row, col>>)
        newv == mp1[<<row, col>>] + val
    IN IF newv = 0 THEN MapErase(mp1, <<row, col>>) ELSE MapPut(mp1, <<row, col>>, newv)

\* Proxy::operator-=
ProxySub(mp, row, col, val) ==
    LET mp1 == MapIndex(mp, <<row, col>>)
        newv == mp1[<<row, col>>] - val
    IN IF newv = 0 THEN MapErase(mp1, <<row, col>>) ELSE MapPut(mp1, <<row, col>>, newv)

(***************************************************************************)
(* The dense reference array and the state of the single-matrix machine.   *)
(* A is the matrix under test, dense the reference updated by the same     *)
(* writes, nwrites the number of writes issued so far (the runs of the     *)
(* machine are cut at MaxWrites).  B and res belong to the kernel machine. *)
(***************************************************************************)
Cells(m) == (0..(m.rows - 1)) \X (0..(m.cols - 1))
ZeroDense(rows, cols) == [cell \in (0..(rows - 1)) \X (0..(cols - 1)) |-> 0]
NnzOf(d) == Cardinality({cell \in DOMAIN d : d[cell] # 0})
NoMatrix == NewMatrix("Matrix", "RowMajor", 0, 0)
NoResult == [op |-> "none"]

\* the object after a call with undefined behaviour (an access past the end of
\* a vector): nothing can be said about it, and no further call is modelled on it
Undefined == [NewMatrix("Matrix", "RowMajor", 0, 0) EXCEPT !.kind = "ub"]
IsDefined(m) == m.kind # "ub"

Shapes ==
    {<<kind, rows, cols>> \in Kinds \X (1..MaxRows) \X (1..MaxCols) :
        kind = "SquareMatrix" => rows = cols}

Init ==
    /\ \E sh \in Shapes, order \in Orders :
          /\ A = NewMatrix(sh[1], order, sh[2], sh[3])
          /\ dense = ZeroDense(sh[2], sh[3])
    /\ nwrites = 0
    /\ B = NoMatrix
    /\ res = NoResult

\* A.set(row, col, value); row = A.rows and col = A.cols are the out-of-range calls
DoSet(row, col, value) ==
    /\ IsDefined(A)
    /\ A' = Set(A, row, col, value)
    /\ dense' = IF InRange(A, row, col) THEN [dense EXCEPT ![<<row, col>>] = value]
                ELSE dense
    /\ nwrites < MaxWrites
    /\ nwrites' = nwrites + 1
    /\ UNCHANGED <<B, res>>

\* A(row, col) = value
DoProxyAssign(row, col, value) ==
    /\ IsDefined(A)
    /\ InRange(A, row, col)
    /\ A' = [At(A) EXCEPT !.uncompressed_format = ProxyAssign(@, row, col, value)]
    /\ dense' = [dense EXCEPT ![<<row, col>>] = value]
    /\ nwrites < MaxWrites
    /\ nwrites' = nwrites + 1
    /\ UNCHANGED <<B, res>>

\* A(row, col) += value
DoProxyAdd(row, col, value) ==
    /\ IsDefined(A)
    /\ InRange(A, row, col)
    /\ dense[<<row, col>>] + value \in Vals
    /\ A' = [At(A) EXCEPT !.uncompressed_format = ProxyAdd(@, row, col, value)]
    /\ dense' = [dense EXCEPT ![<<row, col>>] = @ + value]
    /\ nwrites < MaxWrites
    /\ nwrites' = nwrites + 1
    /\ UNCHANGED <<B, res>>

\* A(row, col) -= value
DoProxySub(row, col, value) ==
    /\ IsDefined(A)
    /\ InRange(A, row, col)
    /\ dense[<<row, col>>] - value \in Vals
    /\ A' = [At(A) EXCEPT !.uncompressed_format = ProxySub(@, row, col, value)]
    /\ dense' = [dense EXCEPT ![<<row, col>>] = @ - value]
    /\ nwrites < MaxWrites
    /\ nwrites' = nwrites + 1
    /\ UNCHANGED <<B, res>>

DoCompress ==
    /\ IsDefined(A)
    /\ A' = Compress(A)
    /\ UNCHANGED <<dense, nwrites, B, res>>

DoUncompress ==
    /\ IsDefined(A)
    /\ A' = Uncompress(A)
    /\ UNCHANGED <<dense, nwrites, B, res>>

DoCompressMod ==
    /\ A.kind = "SquareMatrix"
    /\ A' = compress_mod(A)
    /\ UNCHANGED <<dense, nwrites, B, res>>

Writes ==
    \E row \in 0..A.rows, col \in 0..A.cols, value \in Vals :
        \/ DoSet(row, col, value)
        \/ DoProxyAssign(row, col, value)
        \/ DoProxyAdd(row, col, value)
        \/ DoProxySub(row, col, value)

Next ==
    \/ Writes
    \/ DoCompress
    \/ DoUncompress
    \/ DoCompressMod

Spec == Init /\ [][Next]_vars

(***************************************************************************)
(* Representation states.                                                  *)
(***************************************************************************)
IsUncompressed(m) == ~m.compressed /\ ~m.modified
IsCompressed(m) == m.compressed /\ ~m.modified
IsModified(m) == m.modified /\ ~m.compressed

\* C1: after any sequence of set, proxy assignments, compress, uncompress and
\* compress_mod, get(r, c) of every in-range cell equals the dense reference
\* (0 for cells never written or last written with 0).
DenseEquivalence == \A cell \in Cells(A) : Get(A, cell[1], cell[2]) = dense[cell]

\* three writes were issued, one of them left its cell at 0, and the matrix was
\* then converted to MSR/MSC with a zero diagonal slot
DenseWitness ==
    /\ A.kind = "SquareMatrix" /\ A.rows = 3 /\ IsModified(A)
    /\ nwrites = 3 /\ NnzOf(dense) = 2
    /\ Len(A.mod_values) = 5
    /\ \E i \in 0..2 : Rd(A.mod_values, i) = 0

(***************************************************************************)
(* The conversion machine: a matrix filled by set() with any contents of   *)
(* at most MaxNnz nonzero cells, then converted in any order.              *)
(***************************************************************************)
\* m.set(row, col, d[row, col]) for every cell in keys[i..]
RECURSIVE SetAll(_, _, _, _)
SetAll(m, keys, i, d) ==
    IF i > Len(keys) THEN m
    ELSE SetAll(Set(m, keys[i][1], keys[i][2], d[keys[i]]), keys, i + 1, d)

Filled(kind, order, rows, cols, d) ==
    SetAll(NewMatrix(kind, order, rows, cols),
           SortedKeys("RowMajor", {cell \in DOMAIN d : d[cell] # 0}), 1, d)

Contents(rows, cols) ==
    {d \in [(0..(rows - 1)) \X (0..(cols - 1)) -> Vals] : NnzOf(d) <= MaxNnz}

InitConv ==
    /\ \E sh \in Shapes, order \in Orders :
          \E d \in Contents(sh[2], sh[3]) :
              /\ A = Filled(sh[1], order, sh[2], sh[3], d)
              /\ dense = d
              /\ nwrites = NnzOf(d)
    /\ B = NoMatrix
    /\ res = NoResult

NextConv ==
    \/ DoCompress
    \/ DoUncompress
    \/ DoCompressMod

SpecConv == InitConv /\ [][NextConv]_vars

\* C2: every conversion step (compress, uncompress, and compress_mod on a square
\* matrix), taken in any order, leaves get(r, c) of every cell unchanged.
ConversionsPreserve ==
    [][\A cell \in Cells(A) : Get(A', cell[1], cell[2]) = Get(A, cell[1], cell[2])]_vars

\* a square matrix with a zero diagonal entry, an empty slice and three entries
\* that went through MSR/MSC, back to COO and on to CSR/CSC
ConversionsWitness ==
    /\ A.kind = "SquareMatrix" /\ A.rows = 3 /\ IsCompressed(A)
    /\ Len(A.mod_values) = 5 /\ Len(A.values) = 3
    /\ \E i \in 0..2 : Rd(A.mod_values, i) = 0
    /\ \E i \in 0..2 : Rd(A.inner, i) = Rd(A.inner, i + 1)

(***************************************************************************)
(* The full single-matrix machine: the operations of Spec together with    *)
(* compress_parallel, resize_and_clear and operator()(row, col) taken      *)
(* without a write, on matrices of side at most MaxFullSide.               *)
(***************************************************************************)
\* counts[idx]: number of map entries whose major coordinate is idx, then the
\* inclusive scan of counts written from inner[1] on
ScanCounts(m, j) ==
    Cardinality({key \in DOMAIN m.uncompressed_format : Major(m.order, key) < j})

\* the scatter: outer[index] and values[index] of the index-th map entry
RECURSIVE Scatter(_, _, _, _)
Scatter(m, keys, i, st) ==
    IF i > Len(keys) THEN st
    ELSE Scatter(m, keys, i + 1,
             [outer |-> Wr(st.outer, i - 1, Minor(m.order, keys[i])),
              values |-> Wr(st.values, i - 1, m.uncompressed_format[keys[i]])])

\* Matrix<T,S>::compress_parallel; SquareMatrix does not override it, get_nnz()
\* is the virtual call
Matrix_compress_parallel(m) ==
    IF m.compressed THEN m
    ELSE LET nnz == GetNnz(m)
             st == Scatter(m, SortedKeys(m.order, DOMAIN m.uncompressed_format), 1,
                           [outer |-> Fill(nnz, 0), values |-> Fill(nnz, 0)])
         IN [m EXCEPT !.inner = [j \in 1..(MajorCount(m) + 1) |-> ScanCounts(m, j - 1)],
                      !.outer = st.outer, !.values = st.values,
                      !.uncompressed_format = EmptyMap, !.compressed = TRUE]

\* Matrix<T,S>::resize_and_clear(rows, cols)
Matrix_resize_and_clear(m, rows, cols) ==
    [m EXCEPT !.rows = rows, !.cols = cols, !.compressed = FALSE,
              !.uncompressed_format = EmptyMap,
              !.inner = <<>>, !.outer = <<>>, !.values = <<>>]

\* SquareMatrix<T,S>::resize_and_clear(dim)
SquareMatrix_resize_and_clear(m, dim) ==
    [m EXCEPT !.rows = dim, !.cols = dim, !.compressed = FALSE, !.modified = FALSE,
              !.uncompressed_format = EmptyMap,
              !.inner = <<>>, !.outer = <<>>, !.values = <<>>,
              !.mod_values = <<>>, !.mod_bind = <<>>]

\* the scatter writes outer[index], values[index] for index < map size into
\* vectors of size get_nnz(): in bounds only if the map holds at most nnz entries
ScatterInBounds(m) ==
    m.compressed \/ Cardinality(DOMAIN m.uncompressed_format) <= GetNnz(m)

MaxFullSide == 2

InitFull ==
    /\ \E sh \in Shapes, order \in Orders :
          /\ sh[2] <= MaxFullSide /\ sh[3] <= MaxFullSide
          /\ A = NewMatrix(sh[1], order, sh[2], sh[3])
          /\ dense = ZeroDense(sh[2], sh[3])
    /\ nwrites = 0
    /\ B = NoMatrix
    /\ res = NoResult

DoCompressParallel ==
    /\ IsDefined(A)
    /\ A' = IF ScatterInBounds(A) THEN Matrix_compress_parallel(A) ELSE Undefined
    /\ UNCHANGED <<dense, nwrites, B, res>>

\* A.resize_and_clear(rows, cols), A.resize_and_clear(dim) on a square matrix
DoResizeAndClear(rows, cols) ==
    /\ IsDefined(A)
    /\ A.kind = "SquareMatrix" => rows = cols
    /\ A' = IF A.kind = "SquareMatrix" THEN SquareMatrix_resize_and_clear(A, rows)
            ELSE Matrix_resize_and_clear(A, rows, cols)
    /\ dense' = ZeroDense(rows, cols)
    /\ nwrites < MaxWrites
    /\ nwrites' = nwrites + 1
    /\ UNCHANGED <<B, res>>

\* A(row, col) on a non-const matrix, read through the proxy
DoAt(row, col) ==
    /\ IsDefined(A)
    /\ InRange(A, row, col)
    /\ A' = At(A)
    /\ UNCHANGED <<dense, nwrites, B, res>>

NextFull ==
    \/ Writes
    \/ DoCompress
    \/ DoUncompress
    \/ DoCompressMod
    \/ DoCompressParallel
    \/ \E rows \in 1..MaxFullSide, cols \in 1..MaxFullSide : DoResizeAndClear(rows, cols)
    \/ \E row \in 0..(A.rows - 1), col \in 0..(A.cols - 1) : DoAt(row, col)

SpecFull == InitFull /\ [][NextFull]_vars

\* number of cells read as nonzero through get
NonzeroCells(m) == Cardinality({cell \in Cells(m) : Get(m, cell[1], cell[2]) # 0})

\* C4: in every representation nnz() equals the number of cells (r, c) with
\* get(r, c) # 0; zero diagonal slots of MSR/MSC are not counted.
NnzConsistency == GetNnz(A) = NonzeroCells(A)

\* C5: after any sequence of set, operator(), compress, compress_parallel,
\* uncompress, compress_mod and resize_and_clear the flags compressed and modified
\* are never both true, and only a square matrix is ModifiedCompressed.
ExactlyOneState ==
    /\ ~(A.compressed /\ A.modified)
    /\ A.modified => A.kind = "SquareMatrix"

(***************************************************************************)
(* SpMV: operator*(Matrix, vector) (impl/matrix.tpp) and                   *)
(* operator*(SquareMatrix, vector) (square_matrix.tpp).  A result is       *)
(* [status, r]; status names the throw statement that ended the call.      *)
(***************************************************************************)
NoVector == <<>>
VecOk(r) == [status |-> "ok", r |-> r]
VecShapeMismatch == [status |-> "ShapeMismatch", r |-> NoVector]

\* result[key.row] += val * v[key.col]
VecAdd(r, key, val, v) == Wr(r, key[1], Rd(r, key[1]) + val * Rd(v, key[2]))

\* for (const auto &it : m.uncompressed_format) result[row] += it.second * v[col]
RECURSIVE VecFromMap(_, _, _, _, _)
VecFromMap(m, keys, i, v, r) ==
    IF i > Len(keys) THEN r
    ELSE VecFromMap(m, keys, i + 1, v, VecAdd(r, keys[i], m.uncompressed_format[keys[i]], v))

\* for (j = start; j < end; j++) over the entries idx[j], vals[j] of one slice
RECURSIVE VecFromSlice(_, _, _, _, _, _, _, _)
VecFromSlice(order, idx, vals, slice, j, end, v, r) ==
    IF j < end
    THEN VecFromSlice(order, idx, vals, slice, j + 1, end, v,
             VecAdd(r, KeyOf(order, slice, Rd(idx, j)), Rd(vals, j), v))
    ELSE r

\* the loop over the slices of the CSR/CSC arrays
RECURSIVE VecFromCompressed(_, _, _, _)
VecFromCompressed(m, slice, v, r) ==
    IF slice < MajorCount(m)
    THEN VecFromCompressed(m, slice + 1, v,
             VecFromSlice(m.order, m.outer, m.values, slice,
                          Rd(m.inner, slice), Rd(m.inner, slice + 1), v, r))
    ELSE r

Matrix_mulvec(m, v) ==
    IF m.cols # Len(v) THEN VecShapeMismatch
    ELSE IF ~m.compressed
         THEN VecOk(VecFromMap(m, SortedKeys(m.order, DOMAIN m.uncompressed_format), 1,
                               v, Fill(m.rows, 0)))
         ELSE VecOk(VecFromCompressed(m, 0, v, Fill(m.rows, 0)))

\* seeded fault: the off-diagonal entries of the last slice are left out
RECURSIVE VecFromModNoLast(_, _, _, _)
VecFromModNoLast(m, slice, v, r) ==
    IF slice < MajorCount(m) - 1
    THEN VecFromModNoLast(m, slice + 1, v,
             VecFromSlice(m.order, m.mod_bind, m.mod_values, slice,
                          Rd(m.mod_bind, slice), Rd(m.mod_bind, slice + 1), v, r))
    ELSE r

\* off-diagonal part: slices 0 .. N-2 end at bind[slice + 1], the last at values.size()
RECURSIVE VecFromMod(_, _, _, _)
VecFromMod(m, slice, v, r) ==
    IF slice < MajorCount(m)
    THEN VecFromMod(m, slice + 1, v,
             VecFromSlice(m.order, m.mod_bind, m.mod_values, slice,
                          Rd(m.mod_bind, slice), ModEnd(m, slice, MajorCount(m)), v, r))
    ELSE r

\* for (i = 0; i < m.rows; ++i) result[i] += values[i] * v[i]
RECURSIVE VecDiagonal(_, _, _, _)
VecDiagonal(m, i, v, r) ==
    IF i < m.rows
    THEN VecDiagonal(m, i + 1, v, VecAdd(r, <<i, i>>, Rd(m.mod_values, i), v))
    ELSE r

SquareMatrix_mulvec(m, v) ==
    IF m.modified
    THEN IF Len(v) # m.cols THEN VecShapeMismatch
         ELSE VecOk(VecDiagonal(m, 0, v, VecFromMod(m, 0, v, Fill(m.rows, 0))))
    ELSE Matrix_mulvec(m, v)

\* overload resolution on the static type of the operand
MulVec(m, v) ==
    IF m.kind = "SquareMatrix" THEN SquareMatrix_mulvec(m, v) ELSE Matrix_mulvec(m, v)

(***************************************************************************)
(* The SpMV machine: a matrix of side at most MaxMulSide with any          *)
(* contents, converted in any order and multiplied by vectors of length    *)
(* 1 .. MaxMulSide + 1.                                                    *)
(***************************************************************************)
MaxMulSide == 2

Vectors == UNION {[1..n -> Vals] : n \in 1..(MaxMulSide + 1)}

InitVec ==
    /\ \E sh \in Shapes, order \in Orders :
          /\ sh[2] <= MaxMulSide /\ sh[3] <= MaxMulSide
          /\ \E d \in Contents(sh[2], sh[3]) :
                /\ A = Filled(sh[1], order, sh[2], sh[3], d)
                /\ dense = d
                /\ nwrites = NnzOf(d)
    /\ B = NoMatrix
    /\ res = NoResult

\* r = A * v
DoMulVec(v) ==
    /\ res' = [op |-> "mulvec", v |-> v, out |-> MulVec(A, v)]
    /\ UNCHANGED <<A, dense, nwrites, B>>

\* a conversion of A; the vector result of the earlier representation is dropped
DoConvert ==
    /\ \E m \in {Compress(A), Uncompress(A)}
              \cup (IF A.kind = "SquareMatrix" THEN {compress_mod(A)} ELSE {}) :
          A' = m
    /\ res' = NoResult
    /\ UNCHANGED <<dense, nwrites, B>>

NextVec ==
    \/ DoConvert
    \/ \E v \in Vectors : DoMulVec(v)

SpecVec == InitVec /\ [][NextVec]_vars

\* sum over j of get(i, j) * v[j]
RECURSIVE RowDot(_, _, _, _)
RowDot(m, i, j, v) ==
    IF j < m.cols THEN Get(m, i, j) * Rd(v, j) + RowDot(m, i, j + 1, v) ELSE 0

\* C6: A * v returns r with r[i] = sum over j of get(i, j) * v[j] in every
\* representation and both storage orders when v.len = A.cols, and fails with a
\* shape error when v.len # A.cols.
SpMVCorrect ==
    res.op = "mulvec" =>
        IF Len(res.v) = A.cols
        THEN /\ res.out.status = "ok"
             /\ Len(res.out.r) = A.rows
             /\ \A i \in 0..(A.rows - 1) : Rd(res.out.r, i) = RowDot(A, i, 0, res.v)
        ELSE res.out.status = "ShapeMismatch"

\* a product by a square matrix in MSR/MSC with a zero diagonal slot and an
\* off-diagonal entry in its last slice, with a nonzero result
SpMVWitness ==
    /\ res.op = "mulvec" /\ res.out.status = "ok"
    /\ IsModified(A) /\ A.rows = 2
    /\ Rd(A.mod_values, 0) = 0 /\ Len(A.mod_values) = 3 /\ Rd(A.mod_bind, 1) = 2
    /\ \E i \in 0..1 : Rd(res.out.r, i) # 0

(***************************************************************************)
(* SpGEMM: operator*(Matrix, Matrix) (impl/matrix.tpp).  A result is       *)
(* [status, m]; every result(row, col) += x goes through the proxy.        *)
(***************************************************************************)
MulOk(m) == [status |-> "ok", m |-> m]
MulFailed(status) == [status |-> status, m |-> NoMatrix]

\* for (const auto &it2 : m2.uncompressed_format) if (it1.col == it2.row) ...
RECURSIVE CooInner(_, _, _, _, _, _)
CooInner(m1, m2, k1, keys2, i, acc) ==
    IF i > Len(keys2) THEN acc
    ELSE CooInner(m1, m2, k1, keys2, i + 1,
             IF k1[2] = keys2[i][1]
             THEN ProxyAdd(acc, k1[1], keys2[i][2],
                           m1.uncompressed_format[k1] * m2.uncompressed_format[keys2[i]])
             ELSE acc)

\* for (const auto &it1 : m1.uncompressed_format)
RECURSIVE CooOuter(_, _, _, _, _, _)
CooOuter(m1, m2, keys1, keys2, i, acc) ==
    IF i > Len(keys1) THEN acc
    ELSE CooOuter(m1, m2, keys1, keys2, i + 1,
             CooInner(m1, m2, keys1[i], keys2, 1, acc))

\* the innermost loop with result(row, col) = ... in place of +=
RECURSIVE CsrInnerAssign(_, _, _, _, _, _, _)
CsrInnerAssign(order, y, slice, xval, i, end, acc) ==
    IF i < end
    THEN LET key == KeyOf(order, slice, Rd(y.outer, i))
         IN CsrInnerAssign(order, y, slice, xval, i + 1, end,
                ProxyAssign(acc, key[1], key[2], Rd(y.values, i) * xval))
    ELSE acc

\* CSR x CSR and CSC x CSC.  x is the operand whose slices drive the outer loop
\* (m1 for RowMajor, m2 for ColumnMajor), y the other one.
\* innermost loop: entries i of slice j of y, times the entry xval of x
RECURSIVE CsrInner(_, _, _, _, _, _, _)
CsrInner(order, y, slice, xval, i, end, acc) ==
    IF i < end
    THEN LET key == KeyOf(order, slice, Rd(y.outer, i))
         IN CsrInner(order, y, slice, xval, i + 1, end,
                ProxyAdd(acc, key[1], key[2], Rd(y.values, i) * xval))
    ELSE acc

\* middle loop: entries k of slice "slice" of x
RECURSIVE CsrMiddle(_, _, _, _, _, _, _)
CsrMiddle(order, x, y, slice, k, end, acc) ==
    IF k < end
    THEN LET j == Rd(x.outer, k)
         IN CsrMiddle(order, x, y, slice, k + 1, end,
                CsrInner(order, y, slice, Rd(x.values, k),
                         Rd(y.inner, j), Rd(y.inner, j + 1), acc))
    ELSE acc

\* outer loop over the slices of x
RECURSIVE CsrOuter(_, _, _, _, _)
CsrOuter(order, x, y, slice, acc) ==
    IF slice < MajorCount(x)
    THEN CsrOuter(order, x, y, slice + 1,
             CsrMiddle(order, x, y, slice, Rd(x.inner, slice), Rd(x.inner, slice + 1), acc))
    ELSE acc

\* the operand that drives the outer loop, and the other one
OuterOperand(m1, m2) == IF m1.order = "ColumnMajor" THEN m2 ELSE m1
InnerOperand(m1, m2) == IF m1.order = "ColumnMajor" THEN m1 ELSE m2

Matrix_mul(m1, m2) ==
    IF m1.cols # m2.rows THEN MulFailed("ShapeMismatch")
    ELSE IF m1.compressed # m2.compressed THEN MulFailed("FormatMismatch")
    ELSE LET acc == IF ~m1.compressed
                    THEN CooOuter(m1, m2,
                                  SortedKeys(m1.order, DOMAIN m1.uncompressed_format),
                                  SortedKeys(m2.order, DOMAIN m2.uncompressed_format),
                                  1, EmptyMap)
                    ELSE CsrOuter(m1.order, OuterOperand(m1, m2), InnerOperand(m1, m2),
                                  0, EmptyMap)
         IN MulOk([NewMatrix("Matrix", m1.order, m1.rows, m2.cols)
                      EXCEPT !.uncompressed_format = acc])

(***************************************************************************)
(* operator*(SquareMatrix, SquareMatrix) (square_matrix.tpp): the MSR x MSR *)
(* and MSC x MSC kernel.  x drives the outer loops (m1 for RowMajor, m2    *)
(* for ColumnMajor), y is the other operand, n the common side.            *)
(***************************************************************************)
\* entries i in [i, end) of slice j of y, times the entry xval of x
RECURSIVE MsrInner(_, _, _, _, _, _, _)
MsrInner(order, y, slice, xval, i, end, acc) ==
    IF i < end
    THEN LET key == KeyOf(order, slice, Rd(y.mod_bind, i))
         IN MsrInner(order, y, slice, xval, i + 1, end,
                ProxyAdd(acc, key[1], key[2], Rd(y.mod_values, i) * xval))
    ELSE acc

\* for (k = start; k < end - 1; ++k): the slice j of y ends at bind[j + 1]
RECURSIVE MsrOffDiagonal(_, _, _, _, _, _, _)
MsrOffDiagonal(order, x, y, slice, k, end, acc) ==
    IF k < end - 1
    THEN LET j == Rd(x.mod_bind, k)
         IN MsrOffDiagonal(order, x, y, slice, k + 1, end,
                MsrInner(order, y, slice, Rd(x.mod_values, k),
                         Rd(y.mod_bind, j), Rd(y.mod_bind, j + 1), acc))
    ELSE acc

\* the value of k when that loop is left
LastK(start, end) == IF start < end - 1 THEN end - 1 ELSE start

\* "handle last": the entry at bind[k] is processed after the loop, whether or
\* not the slice [start, end) holds an entry
MsrLastEntry(order, x, y, n, slice, k, acc) ==
    LET j == Rd(x.mod_bind, k)
    IN MsrInner(order, y, slice, Rd(x.mod_values, k),
                Rd(y.mod_bind, j), ModEnd(y, j, n), acc)

\* for (k = start; k < end; ++k) result(...) += diagonal of y times entry k of x
RECURSIVE MsrTimesDiagonalOfY(_, _, _, _, _, _, _)
MsrTimesDiagonalOfY(order, x, y, slice, k, end, acc) ==
    IF k < end
    THEN LET j == Rd(x.mod_bind, k)
             key == KeyOf(order, slice, j)
         IN MsrTimesDiagonalOfY(order, x, y, slice, k + 1, end,
                ProxyAdd(acc, key[1], key[2], Rd(y.mod_values, j) * Rd(x.mod_values, k)))
    ELSE acc

\* first pass over the slices of x (the last slice ends at values.size())
RECURSIVE MsrSlices(_, _, _, _, _, _)
MsrSlices(order, x, y, n, slice, acc) ==
    IF slice < n
    THEN LET start == Rd(x.mod_bind, slice)
             end == ModEnd(x, slice, n)
             a1 == MsrOffDiagonal(order, x, y, slice, start, end, acc)
             a2 == MsrLastEntry(order, x, y, n, slice, LastK(start, end), a1)
         IN MsrSlices(order, x, y, n, slice + 1,
                MsrTimesDiagonalOfY(order, x, y, slice, start, end, a2))
    ELSE acc

\* second pass: each slice of y times the diagonal entry of x
RECURSIVE MsrTimesDiagonalOfX(_, _, _, _, _, _)
MsrTimesDiagonalOfX(order, x, y, n, slice, acc) ==
    IF slice < n
    THEN MsrTimesDiagonalOfX(order, x, y, n, slice + 1,
             MsrInner(order, y, slice, Rd(x.mod_values, slice),
                      Rd(y.mod_bind, slice), ModEnd(y, slice, n), acc))
    ELSE acc

\* for (i = 0; i < m1.rows; ++i) result(i, i) += values1[i] * values2[i]
RECURSIVE MsrDiagonals(_, _, _, _)
MsrDiagonals(m1, m2, i, acc) ==
    IF i < m1.rows
    THEN MsrDiagonals(m1, m2, i + 1,
             ProxyAdd(acc, i, i, Rd(m1.mod_values, i) * Rd(m2.mod_values, i)))
    ELSE acc

\* every index the kernel reads lies inside the MSR/MSC vectors: both operands
\* hold arrays for n slices, and "handle last" reads bind[start] of an empty
\* slice, which lies past the end when no later slice holds an entry
MsrInBounds(x, y, n) ==
    /\ Len(x.mod_bind) >= n /\ Len(x.mod_values) = Len(x.mod_bind)
    /\ Len(y.mod_bind) >= n /\ Len(y.mod_values) = Len(y.mod_bind)
    /\ \A slice \in 0..(n - 1) :
          LastK(Rd(x.mod_bind, slice), ModEnd(x, slice, n)) < Len(x.mod_bind)

SquareMatrix_mul(m1, m2) ==
    IF m1.modified \/ m2.modified
    THEN \* line 745 builds a std::runtime_error and does not throw it
         IF m1.cols # m2.rows THEN MulFailed("ShapeMismatch")
         ELSE LET x == OuterOperand(m1, m2)
                  y == InnerOperand(m1, m2)
                  n == m1.rows
              IN IF ~MsrInBounds(x, y, n) THEN MulFailed("ub")
                 ELSE MulOk([NewMatrix("SquareMatrix", m1.order, n, n)
                        EXCEPT !.uncompressed_format =
                            MsrDiagonals(m1, m2, 0,
                                MsrTimesDiagonalOfX(m1.order, x, y, n, 0,
                                    MsrSlices(m1.order, x, y, n, 0, EmptyMap)))])
    ELSE \* the Matrix product, converted by SquareMatrix(const Matrix &)
         LET r == Matrix_mul(m1, m2)
         IN IF r.status = "ok" THEN MulOk([r.m EXCEPT !.kind = "SquareMatrix"]) ELSE r

\* overload resolution on the static types of the operands
Mul(m1, m2) ==
    IF m1.kind = "SquareMatrix" /\ m2.kind = "SquareMatrix"
    THEN SquareMatrix_mul(m1, m2) ELSE Matrix_mul(m1, m2)

(***************************************************************************)
(* The SpGEMM machine: two operands of the same class and storage order,   *)
(* of side at most MaxMulSide, each filled by set() with at most MaxMulNnz *)
(* nonzero cells, converted in any order and multiplied.                   *)
(***************************************************************************)
MaxMulNnz == 2

MulContents(rows, cols) == {d \in Contents(rows, cols) : NnzOf(d) <= MaxMulNnz}
MulShapes == {sh \in Shapes : sh[2] <= MaxMulSide /\ sh[3] <= MaxMulSide}

InitMul ==
    /\ \E sa \in MulShapes, sb \in MulShapes, order \in Orders :
          /\ sa[1] = sb[1]
          /\ \E da \in MulContents(sa[2], sa[3]), db \in MulContents(sb[2], sb[3]) :
                /\ A = Filled(sa[1], order, sa[2], sa[3], da)
                /\ B = Filled(sb[1], order, sb[2], sb[3], db)
                /\ dense = da
                /\ nwrites = NnzOf(da) + NnzOf(db)
    /\ res = NoResult

\* a conversion of B
DoConvertB ==
    /\ \E m \in {Compress(B), Uncompress(B)}
              \cup (IF B.kind = "SquareMatrix" THEN {compress_mod(B)} ELSE {}) :
          B' = m
    /\ res' = NoResult
    /\ UNCHANGED <<A, dense, nwrites>>

\* A * B
DoMul ==
    /\ res' = [op |-> "mul", out |-> Mul(A, B)]
    /\ UNCHANGED <<A, dense, nwrites, B>>

NextMul ==
    \/ DoConvert
    \/ DoConvertB
    \/ DoMul

SpecMul == InitMul /\ [][NextMul]_vars

\* sum over k of A[i, k] * B[k, j]
RECURSIVE DenseProduct(_, _, _, _, _)
DenseProduct(m1, m2, i, j, k) ==
    IF k < m1.cols
    THEN Get(m1, i, k) * Get(m2, k, j) + DenseProduct(m1, m2, i, j, k + 1)
    ELSE 0

\* every cell of the result equals the dense product
EqualsDenseProduct(r) ==
    \A i \in 0..(A.rows - 1), j \in 0..(B.cols - 1) :
        Get(r, i, j) = DenseProduct(A, B, i, j, 0)

\* C7: for general A, B with A.cols = B.rows, both Uncompressed or both
\* Compressed, every cell of A * B equals the dense product, and cells whose
\* contributions cancel to 0 are not stored in the result.
GeneralProductCorrect ==
    (/\ res.op = "mul" /\ A.kind = "Matrix"
     /\ A.cols = B.rows /\ A.compressed = B.compressed)
    => /\ res.out.status = "ok"
       /\ EqualsDenseProduct(res.out.m)
       /\ \A key \in DOMAIN res.out.m.uncompressed_format :
             /\ res.out.m.uncompressed_format[key] # 0
             /\ DenseProduct(A, B, key[1], key[2], 0) # 0

\* a CSC x CSC product in which the two contributions to a cell cancel
GeneralProductWitness ==
    /\ res.op = "mul" /\ res.out.status = "ok"
    /\ A.kind = "Matrix" /\ A.order = "ColumnMajor" /\ A.compressed /\ B.compressed
    /\ A.rows = 1 /\ A.cols = 2 /\ B.cols = 1
    /\ Len(A.values) = 2 /\ Len(B.values) = 2
    /\ Get(A, 0, 0) * Get(B, 0, 0) # 0 /\ Get(A, 0, 1) * Get(B, 1, 0) # 0
    /\ DOMAIN res.out.m.uncompressed_format = {}

\* C8: for N x N square A, B both ModifiedCompressed, every cell of A * B equals
\* the dense product, also when a slice has no off-diagonal entry or a diagonal
\* slot is 0.  (Stated for the products that return: a call whose reads leave the
\* vectors is not counted against the claim.)
ModifiedProductCorrect ==
    (/\ res.op = "mul" /\ A.kind = "SquareMatrix"
     /\ IsModified(A) /\ IsModified(B) /\ A.rows = B.rows
     /\ res.out.status # "ub")
    => /\ res.out.status = "ok"
       /\ EqualsDenseProduct(res.out.m)

\* C9: A * B fails with a format error whenever the operands are not in the same
\* representation family: one Compressed and the other Uncompressed, or exactly
\* one of two square operands ModifiedCompressed.  (Stated for operands of
\* matching shape and for the calls whose reads stay inside the vectors.)
MixedFormatsFail ==
    (/\ res.op = "mul" /\ A.cols = B.rows
     /\ \/ A.compressed # B.compressed
        \/ A.modified # B.modified
     /\ res.out.status # "ub")
    => res.out.status = "FormatMismatch"

(***************************************************************************)
(* norm<One> and norm<Infinity>: Matrix::norm (impl/matrix.tpp) and        *)
(* SquareMatrix::norm (square_matrix.tpp).  The entries are integers, so   *)
(* the double sums are exact.  norm<Frobenius> takes a square root and is  *)
(* left out.                                                               *)
(***************************************************************************)
Norms == {"One", "Infinity"}

Abs(x) == IF x < 0 THEN -x ELSE x

\* sums[idx] += val with the value added as it is
AddSigned(sums, idx, val) == Wr(sums, idx, Rd(sums, idx) + val)

\* sums[idx] += std::abs(val)
AddAbs(sums, idx, val) == Wr(sums, idx, Rd(sums, idx) + Abs(val))

\* *std::max_element(sums.begin(), sums.end())
MaxElement(sums) ==
    CHOOSE x \in {sums[i] : i \in DOMAIN sums} : \A i \in DOMAIN sums : sums[i] <= x

\* number of sums: cols for norm<One>, rows for norm<Infinity>
NormSize(m, N) == IF N = "One" THEN m.cols ELSE m.rows

\* for (const auto &it : uncompressed_format) sums[it.first.col or row] += ...
RECURSIVE NormFromMap(_, _, _, _, _)
NormFromMap(m, N, keys, i, sums) ==
    IF i > Len(keys) THEN sums
    ELSE NormFromMap(m, N, keys, i + 1,
             AddAbs(sums, IF N = "One" THEN keys[i][2] ELSE keys[i][1],
                    m.uncompressed_format[keys[i]]))

\* the sum an entry of slice "slice" with minor index "minor" goes to
NormTarget(order, N, slice, minor) ==
    IF (N = "One") = (order = "ColumnMajor") THEN slice ELSE minor

\* for (j = start; j < end; j++) sums[...] += std::abs(vals[j])
RECURSIVE NormFromSlice(_, _, _, _, _, _, _, _)
NormFromSlice(order, N, idx, vals, slice, j, end, sums) ==
    IF j < end
    THEN NormFromSlice(order, N, idx, vals, slice, j + 1, end,
             AddAbs(sums, NormTarget(order, N, slice, Rd(idx, j)), Rd(vals, j)))
    ELSE sums

\* loop over the slices of the compressed format
RECURSIVE NormFromCompressed(_, _, _, _)
NormFromCompressed(m, N, slice, sums) ==
    IF slice < MajorCount(m)
    THEN NormFromCompressed(m, N, slice + 1,
             NormFromSlice(m.order, N, m.outer, m.values, slice,
                           Rd(m.inner, slice), Rd(m.inner, slice + 1), sums))
    ELSE sums

\* Matrix<T,S>::norm<N>() past the dispatch on the dynamic type
Matrix_norm(m, N) ==
    MaxElement(IF ~m.compressed
               THEN NormFromMap(m, N, SortedKeys(m.order, DOMAIN m.uncompressed_format),
                                1, Fill(NormSize(m, N), 0))
               ELSE NormFromCompressed(m, N, 0, Fill(NormSize(m, N), 0)))

\* loop over the slices of the modified format: off-diagonal entries, then the
\* diagonal slot
RECURSIVE NormFromMod(_, _, _, _)
NormFromMod(m, N, i, sums) ==
    IF i < m.rows
    THEN LET s1 == NormFromSlice(m.order, N, m.mod_bind, m.mod_values, i,
                                 Rd(m.mod_bind, i), ModEnd(m, i, m.rows), sums)
         IN NormFromMod(m, N, i + 1, AddAbs(s1, i, Rd(m.mod_values, i)))
    ELSE sums

\* SquareMatrix<T,S>::norm<N>()
SquareMatrix_norm(m, N) ==
    IF m.modified THEN MaxElement(NormFromMod(m, N, 0, Fill(NormSize(m, N), 0)))
    ELSE Matrix_norm(m, N)

\* norm<N>() on any object: Matrix::norm hands a modified SquareMatrix over to
\* SquareMatrix::norm
Norm(m, N) ==
    IF m.kind = "SquareMatrix" THEN SquareMatrix_norm(m, N) ELSE Matrix_norm(m, N)

(***************************************************************************)
(* The header-only class Matrix of matrix.hpp: set and the non-const       *)
(* operator() write the map directly, operator* takes its operands by      *)
(* non-const reference.  compress and uncompress are the same statements   *)
(* as in impl/matrix.tpp.                                                  *)
(***************************************************************************)
Inline_compress(m) == Matrix_compress(m)
Inline_uncompress(m) == Matrix_uncompress(m)

\* uncompressed_format[{row, col}] = value
Inline_set(m, row, col, value) ==
    IF ~InRange(m, row, col) THEN m
    ELSE LET u == IF m.compressed THEN Inline_uncompress(m) ELSE m
         IN [u EXCEPT !.uncompressed_format = MapPut(@, <<row, col>>, value)]

\* T &operator()(row, col): return uncompressed_format[{row, col}]
Inline_at(m, row, col) ==
    IF ~InRange(m, row, col) THEN m
    ELSE LET u == IF m.compressed THEN Inline_uncompress(m) ELSE m
         IN [u EXCEPT !.uncompressed_format = MapIndex(@, <<row, col>>)]

\* result(row, col) += val through the reference
RefAdd(mp, key, val) ==
    LET mp1 == MapIndex(mp, key)
    IN MapPut(mp1, key, mp1[key] + val)

\* innermost loop: entries i of slice j of y, times the entry xval of x
RECURSIVE InlineInner(_, _, _, _, _, _, _)
InlineInner(order, y, slice, xval, i, end, acc) ==
    IF i < end
    THEN InlineInner(order, y, slice, xval, i + 1, end,
             RefAdd(acc, KeyOf(order, slice, Rd(y.outer, i)), Rd(y.values, i) * xval))
    ELSE acc

\* middle loop: entries k of slice "slice" of x
RECURSIVE InlineMiddle(_, _, _, _, _, _, _)
InlineMiddle(order, x, y, slice, k, end, acc) ==
    IF k < end
    THEN LET j == Rd(x.outer, k)
         IN InlineMiddle(order, x, y, slice, k + 1, end,
                InlineInner(order, y, slice, Rd(x.values, k),
                            Rd(y.inner, j), Rd(y.inner, j + 1), acc))
    ELSE acc

\* outer loop over the slices of x
RECURSIVE InlineOuter(_, _, _, _, _)
InlineOuter(order, x, y, slice, acc) ==
    IF slice < MajorCount(x)
    THEN InlineOuter(order, x, y, slice + 1,
             InlineMiddle(order, x, y, slice,
                          Rd(x.inner, slice), Rd(x.inner, slice + 1), acc))
    ELSE acc

\* operator*(Matrix &m1, Matrix &m2): [m1, m2, out], the operands as the call
\* leaves them
Inline_mul(m1, m2) ==
    LET c1 == Inline_compress(m1)
        c2 == Inline_compress(m2)
    IN [m1 |-> c1, m2 |-> c2,
        out |-> IF c1.cols # c2.rows THEN MulFailed("ShapeMismatch")
                ELSE MulOk(Inline_compress(
                        [NewMatrix("Matrix", c1.order, c1.rows, c2.cols)
                            EXCEPT !.uncompressed_format =
                                      InlineOuter(c1.order, OuterOperand(c1, c2),
                                                  InnerOperand(c1, c2), 0, EmptyMap)]))]

MaxInlineSide == 2
MaxInlineNnz == 1

\* m.set(row, col, d[row, col]) for every cell in keys[i..]
RECURSIVE InlineSetAll(_, _, _, _)
InlineSetAll(m, keys, i, d) ==
    IF i > Len(keys) THEN m
    ELSE InlineSetAll(Inline_set(m, keys[i][1], keys[i][2], d[keys[i]]), keys, i + 1, d)

\* the right operands: any shape, at most MaxInlineNnz cells set to a nonzero value
InlineOperands(order) ==
    {InlineSetAll(NewMatrix("Matrix", order, rows, cols),
                  SortedKeys("RowMajor", {cell \in DOMAIN d : d[cell] # 0}), 1, d) :
        <<rows, cols, d>> \in
            {t \in (1..MaxInlineSide) \X (1..MaxInlineSide)
                     \X UNION {Contents(r, c) : r \in 1..MaxInlineSide, c \in 1..MaxInlineSide} :
                /\ DOMAIN t[3] = (0..(t[1] - 1)) \X (0..(t[2] - 1))
                /\ NnzOf(t[3]) <= MaxInlineNnz}}

InitInline ==
    /\ \E rows \in 1..MaxInlineSide, cols \in 1..MaxInlineSide, order \in Orders :
          /\ A = NewMatrix("Matrix", order, rows, cols)
          /\ dense = ZeroDense(rows, cols)
    /\ nwrites = 0
    /\ B = NoMatrix
    /\ res = NoResult

\* A.set(row, col, value)
DoInlineSet(row, col, value) ==
    /\ res = NoResult
    /\ nwrites < MaxWrites
    /\ A' = Inline_set(A, row, col, value)
    /\ dense' = [dense EXCEPT ![<<row, col>>] = value]
    /\ nwrites' = nwrites + 1
    /\ UNCHANGED <<B, res>>

\* a read of A(row, col) on a non-const matrix
DoInlineAt(row, col) ==
    /\ res = NoResult
    /\ A' = Inline_at(A, row, col)
    /\ UNCHANGED <<dense, nwrites, B, res>>

DoInlineCompress ==
    /\ res = NoResult
    /\ A' = Inline_compress(A)
    /\ UNCHANGED <<dense, nwrites, B, res>>

DoInlineUncompress ==
    /\ res = NoResult
    /\ A' = Inline_uncompress(A)
    /\ UNCHANGED <<dense, nwrites, B, res>>

\* double norm(): compress() when uncompressed, then the sums over the
\* compressed arrays; [m, out], the object as the call leaves it
Inline_norm(m, N) ==
    LET c == Inline_compress(m)
    IN [m |-> c,
        out |-> MaxElement(NormFromCompressed(c, N, 0, Fill(NormSize(c, N), 0)))]

\* A.norm<N>()
DoInlineNorm(N) ==
    /\ res = NoResult
    /\ LET r == Inline_norm(A, N)
       IN /\ A' = r.m
          /\ res' = [op |-> "norm", n |-> N, out |-> r.out]
    /\ UNCHANGED <<dense, nwrites, B>>

\* A * m2
DoInlineMul(m2) ==
    /\ res = NoResult
    /\ LET r == Inline_mul(A, m2)
       IN /\ A' = r.m1
          /\ B' = r.m2
          /\ res' = [op |-> "mul", out |-> r.out]
    /\ UNCHANGED <<dense, nwrites>>

NextInline ==
    \/ \E cell \in Cells(A), value \in Vals : DoInlineSet(cell[1], cell[2], value)
    \/ \E cell \in Cells(A) : DoInlineAt(cell[1], cell[2])
    \/ DoInlineCompress
    \/ DoInlineUncompress
    \/ \E m2 \in InlineOperands(A.order) : DoInlineMul(m2)
    \/ \E N \in Norms : DoInlineNorm(N)

SpecInline == InitInline /\ [][NextInline]_vars

\* no zero in the COO map, none in the compressed values array, and in the
\* MSR/MSC values only the diagonal slots may be 0
StoresNoZero(m) ==
    /\ \A key \in DOMAIN m.uncompressed_format : m.uncompressed_format[key] # 0
    /\ m.compressed => \A i \in 1..Len(m.values) : m.values[i] # 0
    /\ m.modified => \A i \in 1..Len(m.mod_values) :
                         i > m.rows => m.mod_values[i] # 0

\* C3: in every reachable state no key of the COO store maps to 0, no entry of
\* the compressed values array is 0, and in the MSR/MSC arrays only the N
\* diagonal slots may hold 0, after any sequence of set (also with value 0),
\* operator() accesses and conversions.
NoStoredZeros == IsDefined(A) => StoresNoZero(A)

\* C10: the result of every successful A * B is a matrix in Uncompressed state
\* with dimensions (A.rows, B.cols).
ProductUncompressed ==
    (res.op = "mul" /\ res.out.status = "ok")
    => /\ IsUncompressed(res.out.m)
       /\ res.out.m.rows = A.rows
       /\ res.out.m.cols = B.cols

(***************************************************************************)
(* Writes issued while the matrix is compressed.                           *)
(***************************************************************************)
\* the machine of Spec on matrices of side at most MaxFullSide
SpecWrite == InitFull /\ [][Next]_vars

\* every cell but cell reads the same in m2 as in m1
OthersKept(m1, m2, cell) ==
    \A other \in Cells(m1) \ {cell} :
        Get(m2, other[1], other[2]) = Get(m1, other[1], other[2])

\* m2 is Uncompressed, reads v at cell and reads as m1 everywhere else
WrittenTo(m1, m2, cell, v) ==
    /\ IsUncompressed(m2)
    /\ Get(m2, cell[1], cell[2]) = v
    /\ OthersKept(m1, m2, cell)

\* C11: a set(r, c, v) or a write through A(r, c) with in-range indices issued
\* while the matrix is Compressed or ModifiedCompressed leaves it Uncompressed,
\* with get(r, c) the written value and every other cell as before the call.
TransparentUncompress ==
    [][\A cell \in Cells(A), value \in Vals :
          (/\ IsCompressed(A) \/ IsModified(A)
           /\ nwrites' = nwrites + 1)
          => /\ A' = Set(A, cell[1], cell[2], value)
                => WrittenTo(A, A', cell, value)
             /\ A' = [At(A) EXCEPT !.uncompressed_format =
                                      ProxyAssign(@, cell[1], cell[2], value)]
                => WrittenTo(A, A', cell, value)
             /\ A' = [At(A) EXCEPT !.uncompressed_format =
                                      ProxyAdd(@, cell[1], cell[2], value)]
                => WrittenTo(A, A', cell, Get(A, cell[1], cell[2]) + value)
             /\ A' = [At(A) EXCEPT !.uncompressed_format =
                                      ProxySub(@, cell[1], cell[2], value)]
                => WrittenTo(A, A', cell, Get(A, cell[1], cell[2]) - value)]_vars

\* an Uncompressed square matrix that still carries the MSR/MSC arrays of an
\* earlier compress_mod and whose cell (0, 0) was written since
TransparentUncompressWitness ==
    /\ A.kind = "SquareMatrix" /\ A.rows = 2 /\ IsUncompressed(A)
    /\ nwrites = 3
    /\ Len(A.mod_values) = 3
    /\ Get(A, 0, 0) = 1 /\ Rd(A.mod_values, 0) = -1
    /\ Get(A, 1, 0) = Rd(A.mod_values, 2)

\* A.norm<N>()
DoNorm(N) ==
    /\ res' = [op |-> "norm", n |-> N, out |-> Norm(A, N)]
    /\ UNCHANGED <<A, dense, nwrites, B>>

NextNorm ==
    \/ DoConvert
    \/ \E N \in Norms : DoNorm(N)

SpecNorm == InitVec /\ [][NextNorm]_vars

\* sum over rows r of |get(r, c)|, sum over columns c of |get(r, c)|
RECURSIVE ColAbsSum(_, _, _)
ColAbsSum(m, c, r) ==
    IF r < m.rows THEN Abs(Get(m, r, c)) + ColAbsSum(m, c, r + 1) ELSE 0

RECURSIVE RowAbsSum(_, _, _)
RowAbsSum(m, r, c) ==
    IF c < m.cols THEN Abs(Get(m, r, c)) + RowAbsSum(m, r, c + 1) ELSE 0

MaxOf(S) == CHOOSE x \in S : \A y \in S : y <= x

\* C17: norm<One> is the maximum over columns of the column sums of |get(r, c)|
\* and norm<Infinity> the maximum over rows of the row sums, in every
\* representation and both storage orders.
NormCorrect ==
    res.op = "norm" =>
        res.out = IF res.n = "One"
                  THEN MaxOf({ColAbsSum(A, c, 0) : c \in 0..(A.cols - 1)})
                  ELSE MaxOf({RowAbsSum(A, r, 0) : r \in 0..(A.rows - 1)})

\* norm<One> of a RowMajor square matrix in MSR with a zero diagonal slot whose
\* largest column sum, 2, is made of a diagonal and an off-diagonal entry
NormWitness ==
    /\ res.op = "norm" /\ res.n = "One" /\ res.out = 2
    /\ IsModified(A) /\ A.order = "RowMajor" /\ A.rows = 2
    /\ Len(A.mod_values) = 3
    /\ \E i \in 0..1 : Rd(A.mod_values, i) = 0

\* C12: get, nnz, norm, A * v and A * B leave the representation state, the
\* dimensions and the stored contents of the operand as they were; a norm is
\* computed from the active representation without converting it.
ReadsArePure ==
    [][(res' # res /\ res'.op \in {"norm", "mulvec", "mul"}) => A' = A]_vars

\* the COO store of m holds key cell with value v when v # 0 and does not hold
\* the key when v = 0; the proxy bound to cell reads v
StoredOrErased(m, cell, v) ==
    /\ cell \in DOMAIN m.uncompressed_format <=> v # 0
    /\ v # 0 => m.uncompressed_format[cell] = v
    /\ ProxyRead(m.uncompressed_format, cell[1], cell[2]) = v

\* C13: for a proxy p bound to (r, c): after p = v the COO store contains the
\* key iff v # 0; after p += d or p -= d with old logical value v the store
\* contains the key with value v + d (v - d) iff that value # 0, and the key is
\* absent otherwise; reading the proxy yields the logical value.
ProxyZeroErase ==
    [][\A cell \in Cells(A), value \in Vals :
          nwrites' = nwrites + 1
          => /\ A' = [At(A) EXCEPT !.uncompressed_format =
                                      ProxyAssign(@, cell[1], cell[2], value)]
                => StoredOrErased(A', cell, value)
             /\ A' = [At(A) EXCEPT !.uncompressed_format =
                                      ProxyAdd(@, cell[1], cell[2], value)]
                => StoredOrErased(A', cell, Get(A, cell[1], cell[2]) + value)
             /\ A' = [At(A) EXCEPT !.uncompressed_format =
                                      ProxySub(@, cell[1], cell[2], value)]
                => StoredOrErased(A', cell, Get(A, cell[1], cell[2]) - value)]_vars

\* an Uncompressed square matrix whose cell (0, 0) was nonzero at the last
\* compress_mod and has been written to 0 since: the key is gone from the store
ProxyZeroEraseWitness ==
    /\ A.kind = "SquareMatrix" /\ A.rows = 2 /\ IsUncompressed(A)
    /\ nwrites = 3
    /\ Len(A.mod_values) = 3 /\ Rd(A.mod_values, 0) # 0
    /\ <<0, 0>> \notin DOMAIN A.uncompressed_format
    /\ Cardinality(DOMAIN A.uncompressed_format) = 1

(***************************************************************************)
(* The resize machine: a matrix of side at most MaxFullSide filled by      *)
(* set(), converted in any order, then resized once.  A square matrix is   *)
(* resized through SquareMatrix::resize_and_clear(dim) or, as a Matrix,    *)
(* through Matrix::resize_and_clear(rows, cols), which SquareMatrix hides  *)
(* and does not override.                                                  *)
(***************************************************************************)
InitResize ==
    /\ \E sh \in Shapes, order \in Orders :
          /\ sh[2] <= MaxFullSide /\ sh[3] <= MaxFullSide
          /\ \E d \in Contents(sh[2], sh[3]) :
                /\ A = Filled(sh[1], order, sh[2], sh[3], d)
                /\ dense = d
                /\ nwrites = NnzOf(d)
    /\ B = NoMatrix
    /\ res = NoResult

\* a conversion before the resize
DoConvertFirst ==
    /\ res = NoResult
    /\ DoConvert

\* A.resize_and_clear(rows, cols) on a general matrix, A.resize_and_clear(dim)
\* on a square one
DoOwnResize(rows, cols) ==
    /\ res = NoResult
    /\ A.kind = "SquareMatrix" => rows = cols
    /\ A' = IF A.kind = "SquareMatrix" THEN SquareMatrix_resize_and_clear(A, rows)
            ELSE Matrix_resize_and_clear(A, rows, cols)
    /\ dense' = ZeroDense(rows, cols)
    /\ res' = [op |-> "resize", rows |-> rows, cols |-> cols]
    /\ UNCHANGED <<nwrites, B>>

\* the two-argument Matrix::resize_and_clear called on a square matrix
DoBaseResize(rows, cols) ==
    /\ res = NoResult
    /\ A.kind = "SquareMatrix"
    /\ A' = Matrix_resize_and_clear(A, rows, cols)
    /\ dense' = ZeroDense(rows, cols)
    /\ res' = [op |-> "resize", rows |-> rows, cols |-> cols]
    /\ UNCHANGED <<nwrites, B>>

NextResize ==
    \/ DoConvertFirst
    \/ \E rows \in 1..MaxFullSide, cols \in 1..MaxFullSide : DoOwnResize(rows, cols)
    \/ \E rows \in 1..MaxFullSide, cols \in 1..MaxFullSide : DoBaseResize(rows, cols)

SpecResize == InitResize /\ [][NextResize]_vars

\* C14: resize_and_clear called from any state, through the two-argument general
\* operation or the one-argument square one, leaves the matrix with the new
\* dimensions, Uncompressed, with nnz() = 0 and get(r, c) = 0 for every cell.
ResizeClears ==
    res.op = "resize"
    => /\ A.rows = res.rows /\ A.cols = res.cols
       /\ IsUncompressed(A)
       /\ GetNnz(A) = 0
       /\ \A cell \in Cells(A) : Get(A, cell[1], cell[2]) = 0

\* C15: each conversion is idempotent: compress, uncompress or compress_mod
\* applied a second time right after the first leaves the representation
\* state, all storage arrays and every get value as after the first.
ConversionsIdempotent ==
    [][/\ A' = Compress(A) => Compress(A') = A'
       /\ A' = Uncompress(A) => Uncompress(A') = A'
       /\ (A.kind = "SquareMatrix" /\ A' = compress_mod(A))
          => compress_mod(A') = A']_vars

\* a ColumnMajor 3 x 3 general matrix in Compressed state with three entries
\* in two columns
ConversionsIdempotentWitness ==
    /\ A.kind = "Matrix" /\ A.order = "ColumnMajor" /\ A.rows = 3 /\ A.cols = 3
    /\ IsCompressed(A)
    /\ A.inner = <<0, 2, 2, 3>> /\ Len(A.values) = 3

(***************************************************************************)
(* compress_parallel step by step (impl/matrix.tpp).  The tasks of the two *)
(* std::for_each(std::execution::par, ...) calls run in any order: one     *)
(* __atomic_fetch_add per map entry, then one write of outer[index] and    *)
(* values[index] per entry.  res holds the call in flight: the object at   *)
(* the call (m0), the counts vector and the tasks still to run (todo).     *)
(***************************************************************************)
\* a count task that stores 1 in place of the fetch-and-add
CountStore(counts, idx) == Wr(counts, idx, 1)

\* __atomic_fetch_add(&counts[idx], 1, __ATOMIC_RELAXED)
CountAdd(counts, idx) == Wr(counts, idx, Rd(counts, idx) + 1)

\* counts[0] + ... + counts[j - 1]
RECURSIVE PrefixSum(_, _)
PrefixSum(counts, j) == IF j = 0 THEN 0 ELSE PrefixSum(counts, j - 1) + Rd(counts, j - 1)

\* inner[0] = 0; std::inclusive_scan(counts) written from inner.begin() + 1
InclusiveScan(counts) == [j \in 1..(Len(counts) + 1) |-> PrefixSum(counts, j - 1)]

\* the call up to the first for_each: early return, clear and resize
ParBegin ==
    /\ res = NoResult
    /\ IsDefined(A)
    /\ ~A.compressed
    /\ LET nnz == GetNnz(A)
       IN /\ A' = [A EXCEPT !.inner = Fill(MajorCount(A) + 1, 0),
                            !.outer = Fill(nnz, 0), !.values = Fill(nnz, 0)]
          /\ res' = [op |-> "par", pc |-> "count", m0 |-> A,
                     counts |-> Fill(MajorCount(A), 0),
                     todo |-> DOMAIN A.uncompressed_format]
    /\ UNCHANGED <<dense, nwrites, B>>

\* one task of the counting for_each
ParCount(key) ==
    /\ res.op = "par" /\ res.pc = "count"
    /\ key \in res.todo
    /\ res' = [res EXCEPT !.counts = CountAdd(@, Major(A.order, key)),
                          !.todo = @ \ {key}]
    /\ UNCHANGED <<A, dense, nwrites, B>>

\* the scan, once every count task has run
ParScan ==
    /\ res.op = "par" /\ res.pc = "count"
    /\ res.todo = {}
    /\ A' = [A EXCEPT !.inner = InclusiveScan(res.counts)]
    /\ res' = [res EXCEPT !.pc = "scatter",
                          !.todo = 0..(Cardinality(DOMAIN A.uncompressed_format) - 1)]
    /\ UNCHANGED <<dense, nwrites, B>>

\* one task of the scatter for_each
ParScatter(index) ==
    /\ res.op = "par" /\ res.pc = "scatter"
    /\ index \in res.todo
    /\ LET key == SortedKeys(A.order, DOMAIN A.uncompressed_format)[index + 1]
       IN A' = [A EXCEPT !.outer = Wr(@, index, Minor(A.order, key)),
                         !.values = Wr(@, index, A.uncompressed_format[key])]
    /\ res' = [res EXCEPT !.todo = @ \ {index}]
    /\ UNCHANGED <<dense, nwrites, B>>

\* the end of the call, once every scatter task has run
ParEnd ==
    /\ res.op = "par" /\ res.pc = "scatter"
    /\ res.todo = {}
    /\ A' = [A EXCEPT !.uncompressed_format = EmptyMap, !.compressed = TRUE]
    /\ res' = [op |-> "par_done", m0 |-> res.m0]
    /\ UNCHANGED <<dense, nwrites, B>>

NextPar ==
    \/ ParBegin
    \/ \E key \in (0..(MaxRows - 1)) \X (0..(MaxCols - 1)) : ParCount(key)
    \/ ParScan
    \/ \E index \in 0..(MaxNnz - 1) : ParScatter(index)
    \/ ParEnd

SpecPar == InitConv /\ [][NextPar]_vars

\* C16: for every Uncompressed matrix and every interleaving of the count
\* increments and of the scatter writes, compress_parallel ends in Compressed
\* state with inner, outer and values as the sequential compress produces
\* them from the same contents, and with the COO store cleared.
ParallelAsSequential ==
    res.op = "par_done"
    => /\ IsCompressed(A)
       /\ A.uncompressed_format = EmptyMap
       /\ A = Compress(res.m0)

\* a finished call on a matrix with three entries, two of them in one slice
ParallelWitness ==
    /\ res.op = "par_done"
    /\ Len(A.values) = 3
    /\ \E j \in 1..MajorCount(A) : A.inner[j + 1] - A.inner[j] = 2

(***************************************************************************)
(* operator*(TransposeView, TransposeView) (impl/view_products.tpp).  m1   *)
(* and m2 are the matrices the two views refer to; a view reports the      *)
(* columns of its matrix as its rows and the compressed flag of its matrix *)
(* as its own.                                                             *)
(***************************************************************************)
\* result(col, row): the key of an entry found at minor index "minor" of slice
\* "slice" has the slice as its row for ColumnMajor and as its column for RowMajor
Flip(order) == IF order = "ColumnMajor" THEN "RowMajor" ELSE "ColumnMajor"

\* the operand whose slices drive the outer loop (matrix1 for ColumnMajor,
\* matrix2 for RowMajor), and the other one
TransposeOuter(m1, m2) == IF m1.order = "ColumnMajor" THEN m1 ELSE m2
TransposeInner(m1, m2) == IF m1.order = "ColumnMajor" THEN m2 ELSE m1

\* for (const auto &it2 : matrix2.uncompressed_format)
\*     if (it1.first.row == it2.first.col) result(it1.first.col, it2.first.row) += ...
RECURSIVE TransposeCooInner(_, _, _, _, _, _)
TransposeCooInner(m1, m2, k1, keys2, i, acc) ==
    IF i > Len(keys2) THEN acc
    ELSE TransposeCooInner(m1, m2, k1, keys2, i + 1,
             IF k1[1] = keys2[i][2]
             THEN ProxyAdd(acc, k1[2], keys2[i][1],
                           m1.uncompressed_format[k1] * m2.uncompressed_format[keys2[i]])
             ELSE acc)

\* for (const auto &it1 : matrix1.uncompressed_format)
RECURSIVE TransposeCooOuter(_, _, _, _, _, _)
TransposeCooOuter(m1, m2, keys1, keys2, i, acc) ==
    IF i > Len(keys1) THEN acc
    ELSE TransposeCooOuter(m1, m2, keys1, keys2, i + 1,
             TransposeCooInner(m1, m2, keys1[i], keys2, 1, acc))

\* the MSC x MSC and MSR x MSR kernel: the passes of operator*(SquareMatrix,
\* SquareMatrix) with the operands in the other roles and result(col, row)
TransposeModified(m1, m2) ==
    LET x == TransposeOuter(m1, m2)
        y == TransposeInner(m1, m2)
        n == x.rows
        o == Flip(m1.order)
    IN IF ~MsrInBounds(x, y, n) THEN MulFailed("ub")
       ELSE MulOk([NewMatrix("Matrix", m1.order, m1.cols, m2.rows)
              EXCEPT !.uncompressed_format =
                  MsrDiagonals(m2, m1, 0,
                      MsrTimesDiagonalOfX(o, x, y, n, 0,
                          MsrSlices(o, x, y, n, 0, EmptyMap)))])

Transpose_mul(m1, m2) ==
    IF m1.rows # m2.cols THEN MulFailed("ShapeMismatch")
    ELSE IF m1.compressed # m2.compressed THEN MulFailed("FormatMismatch")
    ELSE IF m1.kind = "SquareMatrix" /\ m2.kind = "SquareMatrix"
    THEN IF m1.modified /\ m2.modified THEN TransposeModified(m1, m2)
         ELSE IF m1.modified \/ m2.modified THEN MulFailed("FormatMismatch")
         ELSE \* no branch is left for two square matrices none of which is modified
              MulOk(NewMatrix("Matrix", m1.order, m1.cols, m2.rows))
    ELSE LET acc == IF m1.compressed
                    THEN CsrOuter(Flip(m1.order), TransposeOuter(m1, m2),
                                  TransposeInner(m1, m2), 0, EmptyMap)
                    ELSE TransposeCooOuter(m1, m2,
                                  SortedKeys(m1.order, DOMAIN m1.uncompressed_format),
                                  SortedKeys(m2.order, DOMAIN m2.uncompressed_format),
                                  1, EmptyMap)
         IN MulOk([NewMatrix("Matrix", m1.order, m1.cols, m2.rows)
                      EXCEPT !.uncompressed_format = acc])

(***************************************************************************)
(* operator*(Matrix, DiagonalView) and operator*(DiagonalView, Matrix)     *)
(* (impl/view_products.tpp).  A DiagonalView refers to a SquareMatrix and  *)
(* reports its dimensions and its compressed flag.                         *)
(***************************************************************************)
\* "no filter" for the innermost loop
AnyMinor == -1

\* innermost loop over the entries i of slice j of y; with want # AnyMinor only
\* the entry on the diagonal of y (minor index = want) is taken
RECURSIVE DiagCsrInner(_, _, _, _, _, _, _, _)
DiagCsrInner(order, y, slice, xval, i, end, want, acc) ==
    IF i < end
    THEN LET minor == Rd(y.outer, i)
             key == KeyOf(order, slice, minor)
         IN DiagCsrInner(order, y, slice, xval, i + 1, end, want,
                IF want = AnyMinor \/ minor = want
                THEN ProxyAdd(acc, key[1], key[2], Rd(y.values, i) * xval)
                ELSE acc)
    ELSE acc

\* middle loop over the entries k of slice "slice" of x.  When x is the matrix
\* of the view only its diagonal entry (j = slice) goes on; when y is, the
\* innermost loop keeps the diagonal entry of slice j of y
RECURSIVE DiagCsrMiddle(_, _, _, _, _, _, _, _)
DiagCsrMiddle(order, x, y, xIsView, slice, k, end, acc) ==
    IF k < end
    THEN LET j == Rd(x.outer, k)
         IN DiagCsrMiddle(order, x, y, xIsView, slice, k + 1, end,
                IF xIsView
                THEN IF j = slice
                     THEN DiagCsrInner(order, y, slice, Rd(x.values, k),
                                       Rd(y.inner, j), Rd(y.inner, j + 1), AnyMinor, acc)
                     ELSE acc
                ELSE DiagCsrInner(order, y, slice, Rd(x.values, k),
                                  Rd(y.inner, j), Rd(y.inner, j + 1), j, acc))
    ELSE acc

\* outer loop over the slices of x
RECURSIVE DiagCsrOuter(_, _, _, _, _, _)
DiagCsrOuter(order, x, y, xIsView, slice, acc) ==
    IF slice < MajorCount(x)
    THEN DiagCsrOuter(order, x, y, xIsView, slice + 1,
             DiagCsrMiddle(order, x, y, xIsView, slice,
                           Rd(x.inner, slice), Rd(x.inner, slice + 1), acc))
    ELSE acc

\* for (i = 0; i < cols; ++i) result(i, i) = values1[i] * values2[i]
RECURSIVE DiagModified(_, _, _, _, _)
DiagModified(m1, m2, cols, i, acc) ==
    IF i < cols
    THEN DiagModified(m1, m2, cols, i + 1,
             ProxyAssign(acc, i, i, Rd(m1.mod_values, i) * Rd(m2.mod_values, i)))
    ELSE acc

\* operator*(Matrix, DiagonalView), both Uncompressed:
\* if (it1.col == it2.row && it2.row == it2.col) result(it1.row, it1.col) += ...
RECURSIVE MulDiagCooInner(_, _, _, _, _, _)
MulDiagCooInner(m1, m2, k1, keys2, i, acc) ==
    IF i > Len(keys2) THEN acc
    ELSE MulDiagCooInner(m1, m2, k1, keys2, i + 1,
             IF k1[2] = keys2[i][1] /\ keys2[i][1] = keys2[i][2]
             THEN ProxyAdd(acc, k1[1], k1[2],
                           m1.uncompressed_format[k1] * m2.uncompressed_format[keys2[i]])
             ELSE acc)

RECURSIVE MulDiagCooOuter(_, _, _, _, _, _)
MulDiagCooOuter(m1, m2, keys1, keys2, i, acc) ==
    IF i > Len(keys1) THEN acc
    ELSE MulDiagCooOuter(m1, m2, keys1, keys2, i + 1,
             MulDiagCooInner(m1, m2, keys1[i], keys2, 1, acc))

\* m1 * Diag(m2)
MatrixTimesDiagonal(m1, m2) ==
    IF m1.cols # m2.rows THEN MulFailed("ShapeMismatch")
    ELSE IF m1.compressed # m2.compressed THEN MulFailed("FormatMismatch")
    ELSE LET result == NewMatrix("Matrix", m1.order, m1.rows, m2.cols)
         IN IF m2.modified
            THEN IF m1.kind = "SquareMatrix" /\ m1.modified
                 THEN MulOk([result EXCEPT !.uncompressed_format =
                                 DiagModified(m1, m2, m1.cols, 0, EmptyMap)])
                 ELSE MulFailed("FormatMismatch")
            ELSE IF m2.compressed
            THEN MulOk([result EXCEPT !.uncompressed_format =
                            DiagCsrOuter(m1.order, OuterOperand(m1, m2), InnerOperand(m1, m2),
                                         m1.order = "ColumnMajor", 0, EmptyMap)])
            ELSE IF m1.kind = "SquareMatrix" /\ m1.modified
                 THEN MulFailed("FormatMismatch")
                 ELSE MulOk([result EXCEPT !.uncompressed_format =
                          MulDiagCooOuter(m1, m2,
                              SortedKeys(m1.order, DOMAIN m1.uncompressed_format),
                              SortedKeys(m2.order, DOMAIN m2.uncompressed_format),
                              1, EmptyMap)])

\* operator*(DiagonalView, Matrix), both Uncompressed:
\* if (it1.col == it2.row && it1.row == it1.col) result(it1.row, it1.col) += ...
RECURSIVE DiagMulCooInner(_, _, _, _, _, _)
DiagMulCooInner(m1, m2, k1, keys2, i, acc) ==
    IF i > Len(keys2) THEN acc
    ELSE DiagMulCooInner(m1, m2, k1, keys2, i + 1,
             IF k1[2] = keys2[i][1] /\ k1[1] = k1[2]
             THEN ProxyAdd(acc, k1[1], k1[2],
                           m1.uncompressed_format[k1] * m2.uncompressed_format[keys2[i]])
             ELSE acc)

RECURSIVE DiagMulCooOuter(_, _, _, _, _, _)
DiagMulCooOuter(m1, m2, keys1, keys2, i, acc) ==
    IF i > Len(keys1) THEN acc
    ELSE DiagMulCooOuter(m1, m2, keys1, keys2, i + 1,
             DiagMulCooInner(m1, m2, keys1[i], keys2, 1, acc))

\* Diag(m1) * m2
DiagonalTimesMatrix(m1, m2) ==
    IF m1.cols # m2.rows THEN MulFailed("ShapeMismatch")
    ELSE IF m1.compressed # m2.compressed THEN MulFailed("FormatMismatch")
    ELSE LET result == NewMatrix("Matrix", m1.order, m1.rows, m2.cols)
         IN IF m1.modified
            THEN IF m2.kind = "SquareMatrix" /\ m2.modified
                 THEN MulOk([result EXCEPT !.uncompressed_format =
                                 DiagModified(m1, m2, m2.cols, 0, EmptyMap)])
                 ELSE MulFailed("FormatMismatch")
            ELSE IF m1.compressed
            THEN MulOk([result EXCEPT !.uncompressed_format =
                            DiagCsrOuter(m1.order, OuterOperand(m1, m2), InnerOperand(m1, m2),
                                         m1.order = "RowMajor", 0, EmptyMap)])
            ELSE IF m2.kind = "SquareMatrix" /\ m2.modified
                 THEN MulFailed("FormatMismatch")
                 ELSE MulOk([result EXCEPT !.uncompressed_format =
                          DiagMulCooOuter(m1, m2,
                              SortedKeys(m1.order, DOMAIN m1.uncompressed_format),
                              SortedKeys(m2.order, DOMAIN m2.uncompressed_format),
                              1, EmptyMap)])

(***************************************************************************)
(* The machine of the view products: two operands of the same storage      *)
(* order, each general or square, of side at most MaxMulSide and filled by *)
(* set() with at most MaxViewNnz nonzero cells, converted in any order;    *)
(* then one of the three products on views of them.                        *)
(***************************************************************************)
MaxViewNnz == 2

ViewContents(rows, cols) == {d \in Contents(rows, cols) : NnzOf(d) <= MaxViewNnz}

InitView ==
    /\ \E sa \in MulShapes, sb \in MulShapes, order \in Orders :
          \E da \in ViewContents(sa[2], sa[3]), db \in ViewContents(sb[2], sb[3]) :
                /\ A = Filled(sa[1], order, sa[2], sa[3], da)
                /\ B = Filled(sb[1], order, sb[2], sb[3], db)
                /\ dense = da
                /\ nwrites = NnzOf(da) + NnzOf(db)
    /\ res = NoResult

\* a conversion of B, before any product
DoConvertBFirst == res = NoResult /\ DoConvertB

\* TransposeView(A) * TransposeView(B)
DoTransposeMul ==
    /\ res = NoResult
    /\ res' = [op |-> "transpose_mul", out |-> Transpose_mul(A, B)]
    /\ UNCHANGED <<A, dense, nwrites, B>>

\* A * DiagonalView(B)
DoMatrixTimesDiagonal ==
    /\ res = NoResult
    /\ B.kind = "SquareMatrix"
    /\ res' = [op |-> "matrix_diagonal", out |-> MatrixTimesDiagonal(A, B)]
    /\ UNCHANGED <<A, dense, nwrites, B>>

\* DiagonalView(A) * B
DoDiagonalTimesMatrix ==
    /\ res = NoResult
    /\ A.kind = "SquareMatrix"
    /\ res' = [op |-> "diagonal_matrix", out |-> DiagonalTimesMatrix(A, B)]
    /\ UNCHANGED <<A, dense, nwrites, B>>

NextView ==
    \/ DoConvertFirst
    \/ DoConvertBFirst
    \/ DoTransposeMul
    \/ DoMatrixTimesDiagonal
    \/ DoDiagonalTimesMatrix

SpecView == InitView /\ [][NextView]_vars

\* sum over k of A[k, i] * B[j, k]
RECURSIVE TransposedProduct(_, _, _, _, _)
TransposedProduct(m1, m2, i, j, k) ==
    IF k < m1.rows
    THEN Get(m1, k, i) * Get(m2, j, k) + TransposedProduct(m1, m2, i, j, k + 1)
    ELSE 0

\* A and B are in the same representation
SameRepresentation(m1, m2) ==
    \/ IsUncompressed(m1) /\ IsUncompressed(m2)
    \/ IsCompressed(m1) /\ IsCompressed(m2)
    \/ IsModified(m1) /\ IsModified(m2)

\* C18: for all A, B with A.rows = B.cols in the same representation, general
\* or square, Transpose(A) * Transpose(B) has dimensions (A.cols, B.rows) and
\* its cell (i, j) equals the sum over k of A[k, i] * B[j, k].  (Stated for
\* the products that return: a call whose reads leave the vectors is not
\* counted against the claim.)
TransposeProductCorrect ==
    (/\ res.op = "transpose_mul"
     /\ A.rows = B.cols /\ SameRepresentation(A, B)
     /\ res.out.status # "ub")
    => /\ res.out.status = "ok"
       /\ res.out.m.rows = A.cols /\ res.out.m.cols = B.rows
       /\ \A i \in 0..(A.cols - 1), j \in 0..(B.rows - 1) :
             Get(res.out.m, i, j) = TransposedProduct(A, B, i, j, 0)

\* C19: for every M and square D with M.cols = D.rows in the same
\* representation, cell (r, c) of M * Diag(D) equals M[r, c] * D[c, c] for every
\* cell, the off-diagonal cells of M included.
ColumnScaling ==
    (/\ res.op = "matrix_diagonal"
     /\ A.cols = B.rows /\ SameRepresentation(A, B))
    => /\ res.out.status = "ok"
       /\ \A r \in 0..(A.rows - 1), c \in 0..(A.cols - 1) :
             Get(res.out.m, r, c) = Get(A, r, c) * Get(B, c, c)

\* C20: for every M and square D with D.cols = M.rows in the same
\* representation, cell (r, c) of Diag(D) * M equals D[r, r] * M[r, c] for every
\* cell, the off-diagonal cells of M included.
RowScaling ==
    (/\ res.op = "diagonal_matrix"
     /\ A.cols = B.rows /\ SameRepresentation(A, B))
    => /\ res.out.status = "ok"
       /\ \A r \in 0..(B.rows - 1), c \in 0..(B.cols - 1) :
             Get(res.out.m, r, c) = Get(A, r, r) * Get(B, r, c)

(***************************************************************************)
(* operator*(TransposeView, vector): the definition of                     *)
(* impl/view_products.tpp and the one written inline in matrix_views.hpp.  *)
(* m is the matrix the view refers to.                                     *)
(***************************************************************************)
\* for (const auto &it : matrix.uncompressed_format) result[col] += it.second * v[row]
RECURSIVE TransposeVecFromMap(_, _, _, _, _)
TransposeVecFromMap(m, keys, i, v, r) ==
    IF i > Len(keys) THEN r
    ELSE TransposeVecFromMap(m, keys, i + 1, v,
             VecAdd(r, <<keys[i][2], keys[i][1]>>, m.uncompressed_format[keys[i]], v))

\* the loop over the slices of the CSR/CSC arrays: result[col] += values[j] * v[row]
RECURSIVE TransposeVecFromCompressed(_, _, _, _)
TransposeVecFromCompressed(m, slice, v, r) ==
    IF slice < MajorCount(m)
    THEN TransposeVecFromCompressed(m, slice + 1, v,
             VecFromSlice(Flip(m.order), m.outer, m.values, slice,
                          Rd(m.inner, slice), Rd(m.inner, slice + 1), v, r))
    ELSE r

\* off-diagonal part of the MSR/MSC arrays: the last slice ends at values.size()
RECURSIVE TransposeVecFromMod(_, _, _, _)
TransposeVecFromMod(m, slice, v, r) ==
    IF slice < MajorCount(m)
    THEN TransposeVecFromMod(m, slice + 1, v,
             VecFromSlice(Flip(m.order), m.mod_bind, m.mod_values, slice,
                          Rd(m.mod_bind, slice), ModEnd(m, slice, MajorCount(m)), v, r))
    ELSE r

\* auto matrix = m.matrix: a Matrix copied from the matrix of the view, summed
\* over its COO map or its compressed arrays on top of r
TransposeVecGeneral(m, v, r) ==
    IF ~m.compressed
    THEN TransposeVecFromMap(m, SortedKeys(m.order, DOMAIN m.uncompressed_format), 1, v, r)
    ELSE TransposeVecFromCompressed(m, 0, v, r)

\* impl/view_products.tpp: the MSR/MSC branch is taken on the dynamic type of
\* m.matrix and is followed by the general part
Transpose_mulvec(m, v) ==
    IF m.rows # Len(v) THEN VecShapeMismatch
    ELSE LET r0 == Fill(m.cols, 0)
             r1 == IF m.kind = "SquareMatrix" /\ m.modified
                   THEN VecDiagonal(m, 0, v, TransposeVecFromMod(m, 0, v, r0))
                   ELSE r0
         IN VecOk(TransposeVecGeneral(m, v, r1))

\* matrix_views.hpp: the copy is taken first, and typeid of the copy, a
\* Matrix, never equals typeid(SquareMatrix): only the general part runs
TransposeInline_mulvec(m, v) ==
    IF m.rows # Len(v) THEN VecShapeMismatch
    ELSE VecOk(TransposeVecGeneral(m, v, Fill(m.cols, 0)))

\* r = TransposeView(A) * v, by the definition of impl/view_products.tpp
DoTransposeMulVec(v) ==
    /\ res' = [op |-> "transpose_mulvec", v |-> v, out |-> Transpose_mulvec(A, v)]
    /\ UNCHANGED <<A, dense, nwrites, B>>

\* r = TransposeView(A) * v, by the definition of matrix_views.hpp
DoTransposeInlineMulVec(v) ==
    /\ res' = [op |-> "transpose_mulvec_inline", v |-> v, out |-> TransposeInline_mulvec(A, v)]
    /\ UNCHANGED <<A, dense, nwrites, B>>

NextTransposeVec ==
    \/ DoConvert
    \/ \E v \in Vectors : DoTransposeMulVec(v)
    \/ \E v \in Vectors : DoTransposeInlineMulVec(v)

SpecTransposeVec == InitVec /\ [][NextTransposeVec]_vars

\* sum over i of get(i, j) * v[i]
RECURSIVE ColDot(_, _, _, _)
ColDot(m, j, i, v) ==
    IF i < m.rows THEN Get(m, i, j) * Rd(v, i) + ColDot(m, j, i + 1, v) ELSE 0

\* the result r of a product by v has length A.cols and r[j] = sum_i A[i,j] * v[i]
IsTransposeProduct(out, v) ==
    /\ out.status = "ok"
    /\ Len(out.r) = A.cols
    /\ \A j \in 0..(A.cols - 1) : Rd(out.r, j) = ColDot(A, j, 0, v)

\* C21: for every A and v with v.len = A.rows, Transpose(A) * v has length A.cols
\* and r[j] = sum over i of A[i,j] * v[i] in every representation of A
\* (Uncompressed, Compressed, ModifiedCompressed), each stored entry counted once.
TransposeSpMVCorrect ==
    (res.op \in {"transpose_mulvec", "transpose_mulvec_inline"} /\ Len(res.v) = A.rows)
    => IsTransposeProduct(res.out, res.v)

(***************************************************************************)
(* Element access through the views (matrix_views.hpp).  m is the matrix   *)
(* the view refers to.  The member "matrix" of a view is a reference to a  *)
(* non-const matrix, so matrix(row, col) is the non-const operator() also  *)
(* inside the const members of the view: it uncompresses the matrix and    *)
(* the value is read through the proxy.                                    *)
(***************************************************************************)
GetOk(value) == [status |-> "ok", value |-> value]
GetFailed(status) == [status |-> status, value |-> 0]

\* DiagonalView::operator()(row, col) const
DiagonalView_get(m, row, col) ==
    IF row = col THEN GetOk(ProxyRead(At(m).uncompressed_format, row, col))
    ELSE GetFailed("IllegalStructure")

\* the matrix after DiagonalView::operator()(row, col) const
DiagonalView_at(m, row, col) == IF row = col THEN At(m) ELSE m

\* for (i = 0; i < matrix.get_rows(); i++) sum += matrix(i, i)
RECURSIVE DiagonalSum(_, _, _)
DiagonalSum(m, i, sum) ==
    IF i < m.rows
    THEN DiagonalSum(m, i + 1, sum + ProxyRead(At(m).uncompressed_format, i, i))
    ELSE sum

\* the conversion of the sum to size_t at the return: the value is
\* low + carry * 2^64, a negative sum wrapping around
ToSize(sum) == IF sum >= 0 THEN [carry |-> 0, low |-> sum] ELSE [carry |-> 1, low |-> sum]

\* DiagonalView::get_nnz
DiagonalView_get_nnz(m) == ToSize(DiagonalSum(m, 0, 0))

\* TransposeView::operator()(row, col) const
TransposeView_get(m, row, col) == ProxyRead(At(m).uncompressed_format, col, row)

\* TransposeView::set with the indices passed on as they come
TransposeView_setUnswapped(m, row, col, value) == Set(m, row, col, value)

\* TransposeView::set
TransposeView_set(m, row, col, value) == Set(m, col, row, value)

\* DiagonalView::set: [status, m]
DiagonalView_set(m, row, col, value) ==
    IF row = col THEN MulOk(Set(m, row, col, value))
    ELSE [status |-> "IllegalStructure", m |-> m]

(***************************************************************************)
(* The machine of the view accessors: a matrix of side at most MaxMulSide  *)
(* with any contents, converted in any order, read and written through a   *)
(* TransposeView, a DiagonalView (over a square matrix) and directly.      *)
(* res keeps the call, the matrix before it and what it returned.          *)
(***************************************************************************)
\* D(row, col) read through a const DiagonalView
DoDiagonalGet(row, col) ==
    /\ A.kind = "SquareMatrix" /\ InRange(A, row, col)
    /\ A' = DiagonalView_at(A, row, col)
    /\ res' = [op |-> "diagonal_get", row |-> row, col |-> col, before |-> A,
               out |-> DiagonalView_get(A, row, col)]
    /\ UNCHANGED <<dense, nwrites, B>>

\* D.get_nnz()
DoDiagonalNnz ==
    /\ A.kind = "SquareMatrix"
    /\ A' = At(A)
    /\ res' = [op |-> "diagonal_nnz", before |-> A, out |-> DiagonalView_get_nnz(A)]
    /\ UNCHANGED <<dense, nwrites, B>>

\* T(row, col) read through a const TransposeView
DoTransposeGet(row, col) ==
    /\ InRange(A, col, row)
    /\ A' = At(A)
    /\ res' = [op |-> "transpose_get", row |-> row, col |-> col, before |-> A,
               out |-> TransposeView_get(A, row, col)]
    /\ UNCHANGED <<dense, nwrites, B>>

\* T.set(row, col, value)
DoTransposeSet(row, col, value) ==
    /\ InRange(A, col, row)
    /\ nwrites < MaxWrites
    /\ A' = TransposeView_set(A, row, col, value)
    /\ dense' = [dense EXCEPT ![<<col, row>>] = value]
    /\ nwrites' = nwrites + 1
    /\ res' = [op |-> "transpose_set", row |-> row, col |-> col, value |-> value,
               before |-> A]
    /\ UNCHANGED B

\* A.set(row, col, value) on the matrix under the views
DoUnderlyingSet(row, col, value) ==
    /\ InRange(A, row, col)
    /\ nwrites < MaxWrites
    /\ A' = Set(A, row, col, value)
    /\ dense' = [dense EXCEPT ![<<row, col>>] = value]
    /\ nwrites' = nwrites + 1
    /\ res' = [op |-> "set", row |-> row, col |-> col, value |-> value, before |-> A]
    /\ UNCHANGED B

\* D.set(row, col, value)
DoDiagonalSet(row, col, value) ==
    /\ A.kind = "SquareMatrix" /\ InRange(A, row, col)
    /\ nwrites < MaxWrites
    /\ LET out == DiagonalView_set(A, row, col, value)
       IN /\ A' = out.m
          /\ dense' = IF out.status = "ok" THEN [dense EXCEPT ![<<row, col>>] = value]
                      ELSE dense
          /\ res' = [op |-> "diagonal_set", row |-> row, col |-> col, value |-> value,
                     before |-> A, out |-> out.status]
    /\ nwrites' = nwrites + 1
    /\ UNCHANGED B

\* C22: for a DiagonalView D over square A, D.get(i, i) = A.get(i, i), and
\* D.get(r, c) returns 0, not an error, for every in-range pair with r # c.
DiagonalGet ==
    res.op = "diagonal_get"
    => /\ res.out.status = "ok"
       /\ res.out.value = IF res.row = res.col THEN Get(res.before, res.row, res.col) ELSE 0

\* number of indices i with get(i, i) # 0
DiagonalCount(m) == Cardinality({i \in 0..(m.rows - 1) : Get(m, i, i) # 0})

\* C23: for a DiagonalView over square A, nnz() returns the number of indices i
\* with A.get(i, i) # 0, whatever the values and the off-diagonal entries are.
DiagonalNnz ==
    res.op = "diagonal_nnz"
    => res.out = [carry |-> 0, low |-> DiagonalCount(res.before)]

\* TransposeView::get_rows, TransposeView::get_cols
TransposeView_get_rows(m) == m.cols
TransposeView_get_cols(m) == m.rows

\* C24: for a TransposeView T over A, at all times T.rows = A.cols, T.cols =
\* A.rows and T.get(r, c) = A.get(c, r); after T.set(r, c, v), A.get(c, r) = v and
\* no other cell of A changes; after A.set(c, r, v), T.get(r, c) = v; for a
\* DiagonalView, set(r, c, v) with r # c fails with IllegalStructure and leaves A
\* unchanged.
ViewTransparency ==
    /\ TransposeView_get_rows(A) = A.cols /\ TransposeView_get_cols(A) = A.rows
    /\ \A r \in 0..(TransposeView_get_rows(A) - 1), c \in 0..(TransposeView_get_cols(A) - 1) :
          TransposeView_get(A, r, c) = Get(A, c, r)
    /\ res.op = "transpose_get" => res.out = Get(res.before, res.col, res.row)
    /\ res.op = "transpose_set"
       => /\ Get(A, res.col, res.row) = res.value
          /\ A.rows = res.before.rows /\ A.cols = res.before.cols
          /\ \A cell \in Cells(A) \ {<<res.col, res.row>>} :
                Get(A, cell[1], cell[2]) = Get(res.before, cell[1], cell[2])
    /\ res.op = "set" => TransposeView_get(A, res.col, res.row) = res.value
    /\ (res.op = "diagonal_set" /\ res.row # res.col)
       => res.out = "IllegalStructure" /\ A = res.before

\* a nonzero value written through the view of a Compressed 1 x 2 matrix to the
\* cell (1, 0) of the view, which is the cell (0, 1) of the matrix
ViewTransparencyWitness ==
    /\ res.op = "transpose_set" /\ res.row = 1 /\ res.col = 0 /\ res.value # 0
    /\ IsCompressed(res.before) /\ res.before.rows = 1 /\ res.before.cols = 2
    /\ Get(res.before, 0, 1) # res.value
    /\ Get(A, 0, 1) = res.value

(***************************************************************************)
(* Matrix(const TransposeView &) (impl/matrix.tpp).  The constructor has   *)
(* no member initializers: this->set() compares its indices with rows and  *)
(* cols before they are assigned, a read of indeterminate values, so each  *)
(* construction from a matrix with stored entries either passes all the    *)
(* range checks or ends with std::out_of_range.                            *)
(***************************************************************************)
\* this->set(col, row, value) on the map, the range check apart
SetTransposed(mp, row, col, value) ==
    IF value # 0 THEN MapPut(mp, <<col, row>>, value) ELSE MapErase(mp, <<col, row>>)

\* for (j = start; j < end; j++) over one slice of the compressed arrays
RECURSIVE FromTransposeSlice(_, _, _, _, _)
FromTransposeSlice(m, slice, j, end, mp) ==
    IF j < end
    THEN LET key == KeyOf(m.order, slice, Rd(m.outer, j))
         IN FromTransposeSlice(m, slice, j + 1, end,
                SetTransposed(mp, key[1], key[2], Rd(m.values, j)))
    ELSE mp

RECURSIVE FromTransposeSlices(_, _, _)
FromTransposeSlices(m, slice, mp) ==
    IF slice < MajorCount(m)
    THEN FromTransposeSlices(m, slice + 1,
             FromTransposeSlice(m, slice, Rd(m.inner, slice), Rd(m.inner, slice + 1), mp))
    ELSE mp

\* for (const auto &it : matrix.uncompressed_format) this->set(col, row, value)
RECURSIVE FromTransposeMap(_, _, _, _)
FromTransposeMap(m, keys, i, mp) ==
    IF i > Len(keys) THEN mp
    ELSE FromTransposeMap(m, keys, i + 1,
             SetTransposed(mp, keys[i][1], keys[i][2], m.uncompressed_format[keys[i]]))

\* the number of this->set() calls the constructor makes
SetCalls(m) == IF m.compressed THEN Len(m.values) ELSE Cardinality(DOMAIN m.uncompressed_format)

\* the constructed object [status, m]; checksPass is the outcome of the range
\* checks of set()
Matrix_from_TransposeView(m, checksPass) ==
    IF SetCalls(m) > 0 /\ ~checksPass THEN MulFailed("OutOfRange")
    ELSE MulOk([NewMatrix("Matrix", m.order, m.cols, m.rows) EXCEPT
                   !.uncompressed_format =
                       IF m.compressed THEN FromTransposeSlices(m, 0, EmptyMap)
                       ELSE FromTransposeMap(m, SortedKeys(m.order, DOMAIN m.uncompressed_format),
                                             1, EmptyMap),
                   !.compressed = m.compressed])

\* Matrix<T, S> C(TransposeView(A))
DoMatrixFromTranspose(checksPass) ==
    /\ res' = [op |-> "from_transpose", before |-> A,
               out |-> Matrix_from_TransposeView(A, checksPass)]
    /\ UNCHANGED <<A, dense, nwrites, B>>

NextAccess ==
    \/ DoConvert
    \/ \E row \in 0..(A.rows - 1), col \in 0..(A.cols - 1) : DoDiagonalGet(row, col)
    \/ DoDiagonalNnz
    \/ \E row \in 0..(A.cols - 1), col \in 0..(A.rows - 1) : DoTransposeGet(row, col)
    \/ \E row \in 0..(A.cols - 1), col \in 0..(A.rows - 1), value \in Vals :
          DoTransposeSet(row, col, value)
    \/ \E row \in 0..(A.rows - 1), col \in 0..(A.cols - 1), value \in Vals :
          DoUnderlyingSet(row, col, value)
    \/ \E row \in 0..(A.rows - 1), col \in 0..(A.cols - 1), value \in Vals :
          DoDiagonalSet(row, col, value)
    \/ \E checksPass \in BOOLEAN : DoMatrixFromTranspose(checksPass)

SpecAccess == InitVec /\ [][NextAccess]_vars

\* C25: a Matrix constructed from TransposeView(A) is in Uncompressed state, has
\* dimensions (A.cols, A.rows) and get(r, c) = A.get(c, r) for every cell, whether
\* A is Uncompressed or Compressed at the time of construction.
FromTransposeUncompressed ==
    (res.op = "from_transpose" /\ (IsUncompressed(A) \/ IsCompressed(A)))
    => /\ res.out.status = "ok"
       /\ IsUncompressed(res.out.m)
       /\ res.out.m.rows = A.cols /\ res.out.m.cols = A.rows
       /\ \A r \in 0..(A.cols - 1), c \in 0..(A.rows - 1) :
             Get(res.out.m, r, c) = Get(A, c, r)

(***************************************************************************)
(* reader (impl/matrix.tpp, square_matrix.tpp).  A file is the dimensions  *)
(* line and the entry lines <<row, col, value>> with 1-based indices, as   *)
(* they are left after the header and the comment lines are skipped.       *)
(***************************************************************************)
MaxLines == 2

Files ==
    UNION {[rows : {rows}, cols : {cols},
            lines : UNION {[1..n -> (1..rows) \X (1..cols) \X Vals] : n \in 0..MaxLines}] :
           rows \in 1..MaxFullSide, cols \in 1..MaxFullSide}

\* the entry loop in which a line naming a cell already stored is skipped
RECURSIVE ReadLinesKeepFirst(_, _, _)
ReadLinesKeepFirst(m, lines, i) ==
    IF i > Len(lines) THEN m
    ELSE ReadLinesKeepFirst(
             IF <<lines[i][1] - 1, lines[i][2] - 1>> \in DOMAIN m.uncompressed_format THEN m
             ELSE Set(m, lines[i][1] - 1, lines[i][2] - 1, lines[i][3]),
             lines, i + 1)

\* while (std::getline(file, line)) set(row - 1, col - 1, value)
RECURSIVE ReadLines(_, _, _)
ReadLines(m, lines, i) ==
    IF i > Len(lines) THEN m
    ELSE ReadLines(Set(m, lines[i][1] - 1, lines[i][2] - 1, lines[i][3]), lines, i + 1)

\* Matrix::reader: [status, m]
Matrix_reader(m, file) ==
    MulOk(ReadLines(Matrix_resize_and_clear(m, file.rows, file.cols), file.lines, 1))

\* SquareMatrix::reader
SquareMatrix_reader(m, file) ==
    IF file.rows # file.cols THEN [status |-> "ShapeMismatch", m |-> m]
    ELSE MulOk(ReadLines(SquareMatrix_resize_and_clear(m, file.rows), file.lines, 1))

\* virtual reader()
Reader(m, file) ==
    IF m.kind = "SquareMatrix" THEN SquareMatrix_reader(m, file) ELSE Matrix_reader(m, file)

\* A.reader(file)
DoRead(file) ==
    /\ res = NoResult
    /\ LET out == Reader(A, file)
       IN /\ A' = out.m
          /\ res' = [op |-> "reader", file |-> file, out |-> out.status]
          /\ dense' = IF out.status = "ok"
                      THEN [cell \in Cells(out.m) |-> Get(out.m, cell[1], cell[2])]
                      ELSE dense
    /\ UNCHANGED <<nwrites, B>>

NextRead ==
    \/ DoConvertFirst
    \/ \E file \in Files : DoRead(file)

SpecRead == InitResize /\ [][NextRead]_vars

\* the value of the last line among lines[1..i] that names the cell (r, c), or 0
RECURSIVE LastNamed(_, _, _, _)
LastNamed(lines, i, r, c) ==
    IF i = 0 THEN 0
    ELSE IF lines[i][1] = r + 1 /\ lines[i][2] = c + 1 THEN lines[i][3]
    ELSE LastNamed(lines, i - 1, r, c)

\* what a read of file leaves of the matrix m1 in m2
ReadAs(m1, m2, file) ==
    IF m1.kind = "SquareMatrix" /\ file.rows # file.cols
    THEN m2 = m1
    ELSE /\ IsUncompressed(m2)
         /\ m2.rows = file.rows /\ m2.cols = file.cols
         /\ \A cell \in Cells(m2) :
               Get(m2, cell[1], cell[2]) = LastNamed(file.lines, Len(file.lines), cell[1], cell[2])
         /\ GetNnz(m2) = Cardinality({cell \in Cells(m2) :
               LastNamed(file.lines, Len(file.lines), cell[1], cell[2]) # 0})
         /\ m2.inner = <<>> /\ m2.outer = <<>> /\ m2.values = <<>>
         /\ m2.mod_values = <<>> /\ m2.mod_bind = <<>>

\* C26: reader behaves as resize_and_clear with the file's dimensions followed by
\* set(row - 1, col - 1, value) for each entry line in file order: afterwards the
\* matrix is Uncompressed, nothing stored before the call remains and get(r, c) is
\* the value of the last line naming (r + 1, c + 1), 0 if there is none; for a
\* square matrix a dimensions line with rows # cols fails with ShapeMismatch and
\* the matrix is untouched.
ReaderContract ==
    [][(res.op = "none" /\ res'.op = "reader")
       => /\ ReadAs(A, A', res'.file)
          /\ res'.out = IF A.kind = "SquareMatrix" /\ res'.file.rows # res'.file.cols
                        THEN "ShapeMismatch" ELSE "ok"]_vars

\* a file read into a matrix that held an entry in Compressed state, with two
\* lines naming the same cell with different values, the second of them stored
ReaderContractWitness ==
    /\ res.op = "reader" /\ res.out = "ok"
    /\ Len(res.file.lines) = 2
    /\ res.file.lines[1][1] = res.file.lines[2][1]
    /\ res.file.lines[1][2] = res.file.lines[2][2]
    /\ res.file.lines[1][3] # 0 /\ res.file.lines[2][3] # 0
    /\ res.file.lines[1][3] # res.file.lines[2][3]
    /\ Get(A, res.file.lines[2][1] - 1, res.file.lines[2][2] - 1) = res.file.lines[2][3]

\* the CSR/CSC arrays of m are well formed
WellFormedCompressed(m) ==
    LET M == MajorCount(m)
    IN /\ Len(m.inner) = M + 1
       /\ Rd(m.inner, 0) = 0
       /\ \A s \in 0..(M - 1) : Rd(m.inner, s) <= Rd(m.inner, s + 1)
       /\ Rd(m.inner, M) = Len(m.outer)
       /\ Len(m.outer) = Len(m.values)
       /\ Len(m.values) = NonzeroCells(m)
       /\ Len(m.values) = GetNnz(m)
       /\ \A i \in 0..(Len(m.values) - 1) : Rd(m.values, i) # 0
       /\ \A s \in 0..(M - 1) :
             \A i \in Rd(m.inner, s)..(Rd(m.inner, s + 1) - 2) :
                 Rd(m.outer, i) < Rd(m.outer, i + 1)

\* C27: whenever a matrix is in Compressed state, reached by compress from
\* Uncompressed or from ModifiedCompressed state, inner has length M + 1,
\* inner[0] = 0, inner is non-decreasing, inner[M] = outer.len = values.len = nnz,
\* and within each slice the outer indices are strictly increasing.
CompressedWellFormed ==
    /\ IsCompressed(A) => WellFormedCompressed(A)
    /\ (IsUncompressed(A) \/ IsModified(A))
       => IsCompressed(Compress(A)) /\ WellFormedCompressed(Compress(A))

\* a 3 x 3 square matrix in ModifiedCompressed state whose slice 1 holds entries
\* on both sides of a nonzero diagonal entry: compress merges the diagonal
\* between them
CompressedWellFormedWitness ==
    /\ IsModified(A) /\ A.rows = 3
    /\ Rd(A.mod_values, 1) # 0
    /\ Rd(A.mod_bind, 1) = 3 /\ Rd(A.mod_bind, 2) = 5
    /\ Rd(A.mod_bind, 3) = 0 /\ Rd(A.mod_bind, 4) = 2
    /\ Compress(A).outer = <<0, 1, 2>>

\* the minor indices of the off-diagonal cells of slice s that read nonzero in m
OffDiagonalMinors(m, s) ==
    {mn \in 0..(m.rows - 1) :
        mn # s /\ Get(m, KeyOf(m.order, s, mn)[1], KeyOf(m.order, s, mn)[2]) # 0}

\* the number of off-diagonal cells of m that read nonzero
OffDiagonalCount(m) ==
    Cardinality({cell \in Cells(m) : cell[1] # cell[2] /\ Get(m, cell[1], cell[2]) # 0})

\* values and bind are the MSR/MSC arrays of the N x N matrix m
IsModifiedFormOf(values, bind, m) ==
    LET N == m.rows
        K == OffDiagonalCount(m)
        SliceEnd(s) == IF s = N - 1 THEN N + K ELSE Rd(bind, s + 1)
    IN /\ Len(values) = N + K
       /\ Len(bind) = N + K
       /\ \A i \in 0..(N - 1) : Rd(values, i) = Get(m, i, i)
       /\ Rd(bind, 0) = N
       /\ \A s \in 0..(N - 2) : Rd(bind, s) <= Rd(bind, s + 1)
       /\ \A s \in 0..(N - 1) :
             /\ SliceEnd(s) - Rd(bind, s) = Cardinality(OffDiagonalMinors(m, s))
             /\ \A j \in Rd(bind, s)..(SliceEnd(s) - 1) :
                   /\ Rd(bind, j) \in OffDiagonalMinors(m, s)
                   /\ Rd(values, j) =
                         Get(m, KeyOf(m.order, s, Rd(bind, j))[1],
                                KeyOf(m.order, s, Rd(bind, j))[2])
                   /\ j + 1 < SliceEnd(s) => Rd(bind, j) < Rd(bind, j + 1)

\* C28: after compress_mod on an N x N matrix (N >= 1) with K off-diagonal
\* nonzeros, values and bind have length N + K, values[i] = A[i,i] for i < N,
\* bind[0] = N, the first N slots of bind are non-decreasing offsets of the
\* slices' off-diagonal entries, the rest of bind holds the minor indices,
\* increasing within each slice, and the arrays are the same whether
\* compress_mod started from Uncompressed or from Compressed state.
ModifiedLayout ==
    (A.kind = "SquareMatrix" /\ A.rows >= 1)
    => /\ IsModified(A) => IsModifiedFormOf(A.mod_values, A.mod_bind, A)
       /\ (IsUncompressed(A) \/ IsCompressed(A))
          => /\ IsModified(compress_mod(A))
             /\ IsModifiedFormOf(compress_mod(A).mod_values,
                                 compress_mod(A).mod_bind, A)
       /\ IsUncompressed(A)
          => /\ compress_mod(Compress(A)).mod_values = compress_mod(A).mod_values
             /\ compress_mod(Compress(A)).mod_bind = compress_mod(A).mod_bind
       /\ IsCompressed(A)
          => /\ compress_mod(Uncompress(A)).mod_values = compress_mod(A).mod_values
             /\ compress_mod(Uncompress(A)).mod_bind = compress_mod(A).mod_bind

\* a 3 x 3 matrix in Compressed state with a nonzero diagonal entry and two
\* off-diagonal entries in one slice, which compress_mod splits into the
\* diagonal slot and two slots past the diagonal
ModifiedLayoutWitness ==
    /\ A.kind = "SquareMatrix" /\ A.rows = 3 /\ IsCompressed(A)
    /\ OffDiagonalMinors(A, 1) = {0, 2}
    /\ Get(A, 1, 1) # 0
    /\ compress_mod(A).mod_bind = <<3, 3, 5, 0, 2>>

\* C29: a set(r, c, v) that fails with OutOfRange (r >= rows or c >= cols)
\* leaves the matrix exactly as it was before the call: same representation
\* state, same dimensions, same storage arrays and same get value for every
\* cell, for general and square matrices alike.
FailedSetLeavesMatrix ==
    \A row \in 0..A.rows, col \in 0..A.cols, value \in Vals :
        ~InRange(A, row, col) => Set(A, row, col, value) = A

\* C30: in every reachable state only the store of the active representation
\* holds data: the COO map is empty unless the state is Uncompressed,
\* inner/outer/values are empty unless the state is Compressed, and the MSR/MSC
\* values and bind arrays are empty unless the state is ModifiedCompressed.
OnlyActiveStoreHoldsData ==
    /\ ~IsUncompressed(A) => A.uncompressed_format = EmptyMap
    /\ ~IsCompressed(A) => A.inner = <<>> /\ A.outer = <<>> /\ A.values = <<>>
    /\ ~IsModified(A) => A.mod_values = <<>> /\ A.mod_bind = <<>>

====
